---------------------------- MODULE Spec2Model ----------------------------
(***************************************************************************)
(* CUQIpy: the sampler lifecycle (cuqi/experimental/mcmc/_sampler.py), the *)
(* linear RTO samplers (cuqi/experimental/mcmc/_rto.py) and the Gaussian   *)
(* parameterization (cuqi/distribution/_gaussian.py).                      *)
(*                                                                         *)
(* A Python object is a record of attributes.  An attribute is MISSING     *)
(* (never assigned: reading it raises AttributeError), NONE, or Val(x).    *)
(* Every method is an operator from the object to the object; the field    *)
(* exc carries the exception that ended the call ("none": it returned).    *)
(* Statements after a raise do not run: Then(o, F) skips F once exc is set.*)
(***************************************************************************)
EXTENDS Integers, Sequences, FiniteSets, TLC

VARIABLES
    s,       \* the sampler object of the last constructor call
    live,    \* TRUE iff that constructor call returned the object
    last,    \* the last call on the sampler: its name, arguments, effects
    files,   \* the batch directory: batch index -> samples of batch_<index>.npz
    cbLog,   \* what the callback has been called with, in order
    ckpt,    \* the checkpoint file written by save_checkpoint
    handler, \* a _BatchHandler object made outside of sample
    g,       \* the Gaussian object of the last Gaussian(...) call
    glast,   \* the last call on the Gaussian
    nprandom \* the state of numpy's global random source

vars == <<s, live, last, files, cbLog, ckpt, handler, g, glast, nprandom>>
sampVars == <<s, live, last, files, cbLog, ckpt, handler>>
gaussVars == <<g, glast, nprandom>>

----------------------------------------------------------------------------
(* Bounds of the model *)

MaxHist == 3        \* most points the history may hold before calls stop
MaxNs == 3          \* largest Ns / Nb of one sample or warmup call
MaxBatch == 2       \* largest batch_size of one sample call
MaxDraws == 2       \* largest N of one Gaussian sample call
MaxDrawn == 4       \* most numbers drawn from the global random source

----------------------------------------------------------------------------
(* Python values *)

MISSING == [tag |-> "missing"]
NONE == [tag |-> "none"]
Val(x) == [tag |-> "val", v |-> x]
IsVal(a) == a.tag = "val"

Raise(o, e) == [o EXCEPT !.exc = e]
(* The(S): the element of a one-element set.  The({e(x) : x \in {v}}) is  *)
(* e with x standing for the value of v, computed once.                     *)
The(S) == CHOOSE x \in S : TRUE
Then(o, F(_)) == The({IF x.exc # "none" THEN x ELSE F(x) : x \in {o}})

Ones(d) == [i \in 1..d |-> 1]       \* np.ones(d)
Zeros(d) == [i \in 1..d |-> 0]      \* np.zeros(d)


----------------------------------------------------------------------------
(* Targets.  cls: the target's type; linear: every likelihood model is a   *)
(* LinearModel; likGauss / priorGauss: the distributions expose sqrtprec   *)
(* (and the prior sqrtprecTimesMean); prox: the prior carries a callable   *)
(* proximal; ops: how the likelihood models are backed; compat: accepted   *)
(* by the concrete proposal-based sampler.  models: the backing of each    *)
(* likelihood's model; data: the length of each likelihood's data; L1: the *)
(* shape of each likelihood's sqrtprec; L2: the shape of the prior's       *)
(* sqrtprec, whose product with the mean has one entry per row.            *)

Shape(rows, cols) == [rows |-> rows, cols |-> cols]

(* A LinearModel built from a matrix or from forward/adjoint functions, or *)
(* a bare array that is no Model at all.                                   *)
ModelsOf(cls, ops) ==
    IF cls = "MultipleLikelihoodPosterior"
    THEN IF ops = "matrix" THEN <<"matrix", "matrix">>
         ELSE IF ops = "callable" THEN <<"function", "function">>
         ELSE IF ops = "mixed" THEN <<"matrix", "function">>
         ELSE IF ops = "array" THEN <<"array", "array">>
         ELSE <<"matrix", "array">>
    ELSE IF ops = "matrix" THEN <<"matrix">>
         ELSE IF ops = "callable" THEN <<"function">>
         ELSE <<"array">>

DataOf(cls) == IF cls = "MultipleLikelihoodPosterior" THEN <<2, 1>> ELSE <<2>>

Target(cls, dim, linear, lg, pg, prox, ops, compat) ==
    [cls |-> cls, ops |-> ops, dim |-> dim, linear |-> linear,
     prox |-> prox, compat |-> compat, likGauss |-> lg, priorGauss |-> pg,
     models |-> ModelsOf(cls, ops), data |-> DataOf(cls),
     L1 |-> [i \in DOMAIN DataOf(cls) |-> Shape(DataOf(cls)[i], DataOf(cls)[i])],
     L2 |-> Shape(dim, dim)]

TPost1 == Target("Posterior", 1, TRUE, TRUE, TRUE, "callable", "matrix", TRUE)
TPost2 == Target("Posterior", 2, TRUE, TRUE, TRUE, "missing", "matrix", TRUE)
TMulti == Target("MultipleLikelihoodPosterior", 2, TRUE, TRUE, TRUE, "missing", "mixed", TRUE)
TNonlin == Target("Posterior", 1, FALSE, TRUE, TRUE, "missing", "callable", TRUE)
TTuple == Target("Tuple5", 1, TRUE, TRUE, TRUE, "missing", "matrix", FALSE)
TOther == Target("Other", 1, FALSE, FALSE, FALSE, "missing", "callable", FALSE)

(* Function-backed linear models; two matrix-backed likelihoods. *)
TFunc == Target("Posterior", 2, TRUE, TRUE, TRUE, "callable", "callable", TRUE)
TMultiMat == Target("MultipleLikelihoodPosterior", 2, TRUE, TRUE, TRUE, "callable", "matrix", TRUE)
(* The models are bare arrays, or a LinearModel next to a bare array. *)
TArray == Target("Posterior", 1, FALSE, TRUE, TRUE, "callable", "array", TRUE)
TArrayMixed == Target("MultipleLikelihoodPosterior", 1, FALSE, TRUE, TRUE, "callable", "arraymixed", TRUE)
(* The prior is a JointGaussianSqrtPrec of two stacked 2 x 2 factors. *)
TJoint == [TPost2 EXCEPT !.L2 = Shape(4, 2)]
(* The likelihood's sqrtprec is a 3 x 2 factor R with R.T@R the precision. *)
TRect == [TPost1 EXCEPT !.L1 = <<Shape(3, 2)>>]
(* The likelihood's sqrtprec does not match the data length. *)
TMismatch == [TPost1 EXCEPT !.L1 = <<Shape(3, 3)>>]

Targets == {TPost1, TPost2, TMulti, TNonlin, TTuple, TOther}
TargetArgs == {NONE} \cup {Val(t) : t \in Targets}
NewTargetArgs == {NONE, Val(TPost1), Val(TPost2), Val(TOther)}
StackTargets == {TPost1, TPost2, TMulti, TFunc, TMultiMat, TArray, TArrayMixed,
                 TJoint, TRect, TMismatch, TOther}
StackTargetArgs == {NONE} \cup {Val(t) : t \in StackTargets}

SamplerKinds == {"ProposalBased", "LinearRTONew", "RegularizedLinearRTONew"}
RTOKinds == {"LinearRTONew", "RegularizedLinearRTONew"}
IsRTO(o) == o.kind \in RTOKinds
IsPB(o) == o.kind = "ProposalBased"

(* self.__class__.__name__ *)
ClassName(o) == o.kind

_STATE_KEYS(o) ==
    IF IsPB(o) THEN {"current_point", "current_target_logd", "scale"}
    ELSE {"current_point"}

_HISTORY_KEYS(o) == {"_samples", "_acc"}

(* The object before __init__ has assigned anything. *)
NewObject(kind) ==
    [exc |-> "none", kind |-> kind,
     _target |-> MISSING, initial_point |-> MISSING, current_point |-> MISSING,
     callback |-> MISSING, _is_initialized |-> MISSING,
     _samples |-> MISSING, _acc |-> MISSING,
     current_target_logd |-> MISSING, scale |-> MISSING, initial_scale |-> MISSING,
     n |-> MISSING, b_tild |-> MISSING, M |-> MISSING,
     proximal |-> MISSING, _stepsize |-> MISSING, maxit |-> MISSING,
     nsteps |-> 0]       \* not an attribute: the step() calls that have returned

NoObject == NewObject("none")

(* target.logd(x) *)
logd(t, x) == [x |-> x, t |-> t]

----------------------------------------------------------------------------
(* SamplerNew: initialization *)

(* self.dim: AttributeError on a None target *)
HasDim(o) == IsVal(o._target)
dim(o) == o._target.v.dim

_default_initial_point(o) == Ones(dim(o))

SamplerNew_set_defaults(o) ==
    IF o._target.tag = "missing" THEN Raise(o, "AttributeError")
    ELSE IF o._target.tag = "none" THEN Raise(o, "ValueError:no_target")
    ELSE [o EXCEPT !.initial_point = Val(_default_initial_point(o)),
                   !.current_point = Val(_default_initial_point(o))]

ProposalBased_set_defaults(o) ==
    LET o1 == SamplerNew_set_defaults(o) IN
    IF o1.exc # "none" THEN o1
    ELSE [o1 EXCEPT !.current_target_logd = Val(logd(o1._target.v, o1.current_point.v))]

_set_defaults(o) ==
    IF IsPB(o) THEN ProposalBased_set_defaults(o) ELSE SamplerNew_set_defaults(o)

_initialize_state(o) ==
    IF IsPB(o)
    THEN IF o.initial_scale.tag = "missing" THEN Raise(o, "AttributeError")
         ELSE [o EXCEPT !.scale = o.initial_scale]
    ELSE o

_initialize_history(o) ==
    IF IsPB(o) THEN [o EXCEPT !._samples = Val(<<>>), !._acc = Val(<<1>>)]
    ELSE [o EXCEPT !._samples = Val(<<>>)]

(* getattr(self, key) is None, for every state key and then every history  *)
(* key: AttributeError if the attribute was never assigned.                *)
KeysCheck(o, keys) ==
    IF \E k \in keys : o[k].tag = "missing" THEN Raise(o, "AttributeError")
    ELSE IF \E k \in keys : o[k].tag = "none" THEN Raise(o, "ValueError:key_not_set")
    ELSE o

_validate_initialization(o) ==
    LET o1 == KeysCheck(o, _STATE_KEYS(o)) IN
    IF o1.exc # "none" THEN o1 ELSE KeysCheck(o1, _HISTORY_KEYS(o1))

SetInitialized(o) == [o EXCEPT !._is_initialized = Val(TRUE)]

initialize(o) ==
    IF o._is_initialized.tag = "missing" THEN Raise(o, "AttributeError")
    ELSE IF o._is_initialized = Val(TRUE) THEN Raise(o, "ValueError:already_initialized")
    ELSE IF o._target.tag = "missing" THEN Raise(o, "AttributeError")
    ELSE IF o._target.tag = "none" THEN Raise(o, "ValueError:no_target")
    ELSE Then(Then(Then(Then(_set_defaults(o), _initialize_state),
                        _initialize_history), _validate_initialization),
              SetInitialized)


----------------------------------------------------------------------------
(* Target validation and the target setters *)

(* The abstract validate_target of a concrete subclass that is not an RTO  *)
(* sampler: it raises for the targets it is not compatible with.           *)
Abstract_validate_target(o) ==
    IF o._target.v.compat THEN o ELSE Raise(o, "ValueError:target")

LinearRTONew_validate_target(o) ==
    LET t == o._target.v IN
    IF t.cls \notin {"Posterior", "MultipleLikelihoodPosterior"}
    THEN Raise(o, "ValueError:target")
    ELSE IF ~t.linear THEN Raise(o, "TypeError:linear")
    ELSE IF ~t.likGauss THEN Raise(o, "TypeError:sqrtprec")
    ELSE IF o.kind = "RegularizedLinearRTONew" /\ t.prox = "missing"
    THEN Raise(o, "AttributeError")        \* self.prior is target.prior.gaussian
    ELSE IF ~t.priorGauss THEN Raise(o, "TypeError:sqrtprec")
    ELSE o

validate_target(o) ==
    IF IsRTO(o) THEN LinearRTONew_validate_target(o) ELSE Abstract_validate_target(o)

SamplerNew_target_fset(o, value) ==
    LET o1 == [o EXCEPT !._target = value] IN
    IF value.tag = "none" THEN o1
    ELSE Then(Then(o1, validate_target), initialize)

(* callable(likelihood.model): every Model defines __call__, so a         *)
(* LinearModel is callable whether a matrix or functions back it; a bare  *)
(* array is not.                                                           *)
callable(model) == model \in {"matrix", "function"}

Min(a, b) == IF a <= b THEN a ELSE b

RECURSIVE SumData(_)
SumData(data) == IF data = <<>> THEN 0 ELSE Head(data) + SumData(Tail(data))

(* L@likelihood.data has one entry per row of L and needs as many columns  *)
(* as there are data; np.hstack appends the prior's sqrtprecTimesMean.     *)
RECURSIVE SumRows(_)
SumRows(L) == IF L = <<>> THEN 0 ELSE Head(L).rows + SumRows(Tail(L))

(* The stack without the prior's sqrtprecTimesMean. *)
b_tild_len_NoPrior(t) == SumRows(t.L1)

b_tild_len(t) == SumRows(t.L1) + t.L2.rows

(* self.likelihoods is None unless the target is a (multiple likelihood)   *)
(* posterior, and iterating None raises TypeError.  M is the stacked       *)
(* matrix when no model is callable, the forward/adjoint closure when all  *)
(* are, and a TypeError otherwise.                                         *)
_precompute(o) ==
    IF o._target.tag = "missing" THEN Raise(o, "AttributeError")
    ELSE IF ~IsVal(o._target) THEN Raise(o, "TypeError")
    ELSE LET t == o._target.v IN
         IF t.cls \notin {"Posterior", "MultipleLikelihoodPosterior"}
         THEN Raise(o, "TypeError")
         ELSE IF ~t.likGauss THEN Raise(o, "AttributeError")
         ELSE IF o.kind = "RegularizedLinearRTONew" /\ t.prox = "missing"
         THEN Raise(o, "AttributeError")       \* self.prior is target.prior.gaussian
         ELSE IF ~t.priorGauss THEN Raise(o, "AttributeError")
         ELSE LET o1 == [o EXCEPT !.n = Val(t.dim)] IN
              IF \E i \in DOMAIN t.L1 : t.L1[i].cols # t.data[i]
              THEN Raise(o1, "ValueError:shape")
              ELSE LET o2 == [o1 EXCEPT !.b_tild = Val([of |-> t, len |-> b_tild_len(t)])] IN
                   IF \A i \in DOMAIN t.models : ~callable(t.models[i])
                   THEN [o2 EXCEPT !.M = Val([of |-> t, form |-> "matrix"])]
                   ELSE IF \A i \in DOMAIN t.models : callable(t.models[i])
                   THEN [o2 EXCEPT !.M = Val([of |-> t, form |-> "closure"])]
                   ELSE Raise(o2, "TypeError:mixed")

(* x[idx_start:idx_end] of each likelihood in turn, idx_end advancing by   *)
(* len(likelihood.data); a slice stops at the end of x.                    *)
RECURSIVE AdjointSegments(_, _, _)
AdjointSegments(data, idx_start, x_len) ==
    IF data = <<>> THEN <<>>
    ELSE <<Min(x_len, idx_start + Head(data)) - Min(x_len, idx_start)>>
             \o AdjointSegments(Tail(data), idx_start + Head(data), x_len)

MFails(e) == [exc |-> e, len |-> 0, blocks |-> <<>>]

(* The closure M(x, flag) of a target t on an x of x_len entries: the      *)
(* entries of each block it stacks (flag 1) or of each segment it cuts     *)
(* from x (flag 2), and the length of what it returns.  A product of a     *)
(* matrix with a vector of another length than its columns raises          *)
(* ValueError.                                                             *)
M_closure(t, x_len, flag) ==
    IF flag = 1
    THEN IF t.L2.cols # x_len THEN MFails("ValueError:shape")            \* L2 @ x
         ELSE [exc |-> "none",
               len |-> SumRows(t.L1) + t.L2.rows,
               blocks |-> [i \in DOMAIN t.L1 |-> t.L1[i].rows] \o <<t.L2.rows>>]
    ELSE The({IF \E i \in DOMAIN t.L1 : segs[i] # t.L1[i].rows           \* sqrtprec.T @ x[a:b]
              THEN MFails("ValueError:shape")
              ELSE IF x_len - Min(x_len, SumData(t.data)) # t.L2.rows    \* L2.T @ x[idx_end:]
              THEN MFails("ValueError:shape")
              ELSE [exc |-> "none",
                    len |-> t.dim,
                    blocks |-> segs \o <<x_len - Min(x_len, SumData(t.data))>>] :
              segs \in {AdjointSegments(t.data, 0, x_len)}})

(* A 5-tuple (data, model, L_sqrtprec, P_mean, P_sqrtprec) becomes a        *)
(* Posterior of two Gaussians given by sqrtprec, if its model is linear.   *)
LinearRTONew_target_fset(o, value) ==
    IF IsVal(value) /\ value.v.cls = "Tuple5"
    THEN IF ~value.v.linear THEN Raise(o, "TypeError:model")
         ELSE Then(SamplerNew_target_fset(o,
                       Val([value.v EXCEPT !.cls = "Posterior", !.likGauss = TRUE,
                                           !.priorGauss = TRUE])),
                   _precompute)
    ELSE Then(SamplerNew_target_fset(o, value), _precompute)

(* value.prior.proximal: AttributeError when value is None or its prior    *)
(* has no proximal.                                                        *)
RegularizedLinearRTONew_target_fset(o, value) ==
    IF ~IsVal(value) THEN Raise(o, "AttributeError")
    ELSE IF value.v.prox = "missing" THEN Raise(o, "AttributeError")
    ELSE IF value.v.prox # "callable" THEN Raise(o, "TypeError:projector")
    ELSE LinearRTONew_target_fset(o, value)

(* self.target = value, on the class of the object *)
target_fset(o, value) ==
    IF o.kind = "RegularizedLinearRTONew" THEN RegularizedLinearRTONew_target_fset(o, value)
    ELSE IF o.kind = "LinearRTONew" THEN LinearRTONew_target_fset(o, value)
    ELSE SamplerNew_target_fset(o, value)


----------------------------------------------------------------------------
(* Constructors.  ip is MISSING when initial_point is not passed.           *)

SamplerNew_init(o, target, ip, cb) ==
    LET o1 == target_fset(o, target)
        ipv == IF ip.tag = "missing" THEN NONE ELSE ip
    IN  IF o1.exc # "none" THEN o1
        ELSE [o1 EXCEPT !.initial_point = ipv, !.current_point = ipv,
                        !.callback = cb, !._is_initialized = Val(FALSE)]

(* proposal=None, scale=1 *)
ProposalBasedSamplerNew_init(o, target, ip, cb) ==
    LET o1 == SamplerNew_init(o, target, ip, cb) IN
    IF o1.exc # "none" THEN o1
    ELSE [o1 EXCEPT !.initial_scale = Val(1), !.current_target_logd = NONE,
                    !.scale = NONE]

LinearRTONew_init(o, target, ip, cb) ==
    LET o1 == SamplerNew_init(o, target, ip, cb) IN
    IF o1.exc # "none" THEN o1
    ELSE IF ip.tag = "missing" /\ ~HasDim(o1) THEN Raise(o1, "AttributeError")
    ELSE LET o2 == IF ip.tag = "missing"
                   THEN [o1 EXCEPT !.initial_point = Val(Zeros(dim(o1)))]
                   ELSE o1
         IN  [o2 EXCEPT !.current_point = o2.initial_point, !._acc = Val(<<1>>),
                        !.maxit = Val(10)]

(* stepsize = "automatic": 0.99 / estimate_spectral_norm(M)^2 *)
_choose_stepsize(o) ==
    IF o.M.tag = "missing" THEN Raise(o, "AttributeError")
    ELSE [o EXCEPT !._stepsize = Val([automatic |-> o.M.v])]

SetProximal(o) ==
    IF ~IsVal(o._target) \/ o._target.v.prox = "missing" THEN Raise(o, "AttributeError")
    ELSE [o EXCEPT !.proximal = Val([of |-> o._target.v])]

(* self.maxit = maxit, the last statement of the constructor *)
SetMaxit(o) == [o EXCEPT !.maxit = Val(100)]

RegularizedLinearRTONew_init(o, target, ip, cb) ==
    Then(Then(Then(LinearRTONew_init(o, target, ip, cb), SetProximal), _choose_stepsize),
         SetMaxit)

Constructor(kind, target, ip, cb) ==
    LET o == NewObject(kind) IN
    IF kind = "RegularizedLinearRTONew" THEN RegularizedLinearRTONew_init(o, target, ip, cb)
    ELSE IF kind = "LinearRTONew" THEN LinearRTONew_init(o, target, ip, cb)
    ELSE IF kind = "ProposalBased" THEN ProposalBasedSamplerNew_init(o, target, ip, cb)
    ELSE SamplerNew_init(o, target, ip, cb)

----------------------------------------------------------------------------
(* step and tune.  A step's random draw is the input out: the point the    *)
(* chain would move to, and for an accept/reject sampler whether it does.  *)

(* The point a step draws.  sample and warmup only move points around, so  *)
(* a draw is named by its position in the chain: the j-th draw is the      *)
(* constant vector j + 1, different from every earlier draw and from the   *)
(* initial points.                                                         *)
Draw(o) ==
    LET d == IF HasDim(o) THEN dim(o) ELSE 1
        j == IF IsVal(o._samples) THEN Len(o._samples.v) + 1 ELSE 1
    IN  [i \in 1..d |-> j + 1]

(* out = 1: the chain moves to the draw; out = 0: an accept/reject sampler *)
(* rejects it.                                                             *)
StepOutcomes(o) == IF o.kind \in RTOKinds THEN {1} ELSE {0, 1}

(* The step of a concrete subclass that is not an RTO sampler: it reads    *)
(* the target and the current point and returns the acceptance indicator. *)
Abstract_step(o, out) ==
    IF o._target.tag = "missing" \/ o.current_point.tag = "missing"
    THEN [o |-> Raise(o, "AttributeError"), acc |-> 0]
    ELSE IF ~IsVal(o._target) \/ ~IsVal(o.current_point)
    THEN [o |-> Raise(o, "TypeError"), acc |-> 0]
    ELSE IF out = 0 THEN [o |-> [o EXCEPT !.nsteps = @ + 1], acc |-> 0]
    ELSE [o |-> IF IsPB(o)
                THEN [o EXCEPT !.current_point = Val(Draw(o)),
                               !.current_target_logd = Val(logd(o._target.v, Draw(o))),
                               !.nsteps = @ + 1]
                ELSE [o EXCEPT !.current_point = Val(Draw(o)), !.nsteps = @ + 1],
          acc |-> 1]

(* y = b_tild + noise; current_point = solve(M, y, current_point); acc = 1 *)
LinearRTONew_step(o, out) ==
    IF o.b_tild.tag = "missing" \/ o.M.tag = "missing" \/ o.current_point.tag = "missing"
       \/ o.maxit.tag = "missing"
    THEN [o |-> Raise(o, "AttributeError"), acc |-> 0]
    ELSE IF o.kind = "RegularizedLinearRTONew"
            /\ (o.proximal.tag = "missing" \/ o._stepsize.tag = "missing")
    THEN [o |-> Raise(o, "AttributeError"), acc |-> 0]
    ELSE [o |-> [o EXCEPT !.current_point = Val(Draw(o)), !.nsteps = @ + 1], acc |-> 1]

step(o, out) ==
    IF IsRTO(o) THEN LinearRTONew_step(o, out) ELSE Abstract_step(o, out)

(* LinearRTONew.tune is pass; the abstract tune of the other samplers      *)
(* adjusts nothing that is modelled.                                       *)
tune(o, skip_len, update_count) == o


----------------------------------------------------------------------------
(* _BatchHandler.  The handler record carries the directory it writes to   *)
(* (dir: batch index -> samples of that file, <<>> when there is none) and *)
(* the files it has written, in order.                                     *)

BatchIds == 0..MaxNs
NoFiles == [i \in BatchIds |-> <<>>]

_BatchHandler_init(batch_size, dir) ==
    [dir |-> dir, _batch_size |-> batch_size, current_batch |-> <<>>,
     num_batches_dumped |-> 0, writes |-> <<>>]

(* A flush that writes every batch under the same index. *)
flush_KeepIndex(h) ==
    IF h.current_batch = <<>> THEN h
    ELSE [h EXCEPT !.dir[h.num_batches_dumped] = h.current_batch,
                   !.writes = Append(@, [id |-> h.num_batches_dumped,
                                         samples |-> h.current_batch]),
                   !.current_batch = <<>>]

flush(h) ==
    IF h.current_batch = <<>> THEN h
    ELSE [h EXCEPT !.dir[h.num_batches_dumped] = h.current_batch,
                   !.writes = Append(@, [id |-> h.num_batches_dumped,
                                         samples |-> h.current_batch]),
                   !.num_batches_dumped = @ + 1,
                   !.current_batch = <<>>]

add_sample(h, sample) ==
    IF h._batch_size <= 0 THEN h
    ELSE LET h1 == [h EXCEPT !.current_batch = Append(@, sample)] IN
         IF Len(h1.current_batch) >= h1._batch_size THEN flush(h1) ELSE h1

finalize(h) == flush(h)

----------------------------------------------------------------------------
(* sample and warmup.  The loop state: the object, the batch handler, the  *)
(* callback's log and the tune calls made.                                 *)

(* A store that keeps the newest point only. *)
StoreSamples_Overwrite(o, acc) ==
    IF ~IsVal(o._acc) THEN Raise(o, "AttributeError")
    ELSE IF ~IsVal(o._samples) \/ o.current_point.tag = "missing"
    THEN Raise([o EXCEPT !._acc = Val(Append(o._acc.v, acc))], "AttributeError")
    ELSE [o EXCEPT !._acc = Val(Append(o._acc.v, acc)),
                   !._samples = Val(<<o.current_point>>)]

(* self._acc.append(acc); self._samples.append(self.current_point) *)
StoreSamples(o, acc) ==
    IF ~IsVal(o._acc) THEN Raise(o, "AttributeError")
    ELSE LET o1 == [o EXCEPT !._acc = Val(Append(o._acc.v, acc))] IN
         IF ~IsVal(o1._samples) \/ o1.current_point.tag = "missing"
         THEN Raise(o1, "AttributeError")
         ELSE [o1 EXCEPT !._samples = Val(Append(o1._samples.v, o1.current_point))]

(* A callback given the number of points stored instead of the position. *)
_call_callback_OneBased(o, log, sample, sample_index) ==
    IF IsVal(o.callback) THEN Append(log, [sample |-> sample, index |-> sample_index + 1])
    ELSE log

(* if self.callback is not None: self.callback(sample, sample_index) *)
_call_callback(o, log, sample, sample_index) ==
    IF IsVal(o.callback) THEN Append(log, [sample |-> sample, index |-> sample_index])
    ELSE log

sample_stored(st, o1, batch_size) ==
    IF o1.exc # "none" THEN [st EXCEPT !.o = o1]
    ELSE LET h1 == IF batch_size > 0 THEN add_sample(st.h, o1.current_point)
                   ELSE st.h
         IN  IF o1.callback.tag = "missing"
             THEN [st EXCEPT !.o = Raise(o1, "AttributeError"), !.h = h1]
             ELSE [st EXCEPT !.o = o1, !.h = h1,
                             !.cb = _call_callback(o1, @, o1.current_point,
                                                   Len(o1._samples.v) - 1)]

sample_body(st, out, batch_size) ==
    The({IF r.o.exc # "none" THEN [st EXCEPT !.o = r.o]
         ELSE The({sample_stored(st, o1, batch_size) : o1 \in {StoreSamples(r.o, r.acc)}})
         : r \in {step(st.o, out)}})

RECURSIVE sample_loop(_, _, _, _, _)
sample_loop(st, i, Ns, outs, batch_size) ==
    IF i > Ns \/ st.o.exc # "none" THEN st
    ELSE The({sample_loop(nx, i + 1, Ns, outs, batch_size)
              : nx \in {sample_body(st, outs[i], batch_size)}})

sample(o, Ns, batch_size, outs, dir, log) ==
    sample_loop([o |-> o, cb |-> log, h |-> _BatchHandler_init(batch_size, dir),
                 tunes |-> <<>>],
                1, Ns, outs, batch_size)

Max(a, b) == IF a >= b THEN a ELSE b

(* The interval rounded up instead of truncated. *)
tune_interval_RoundedUp(Nb, tune_freq) ==
    Max((tune_freq[1] * Nb + tune_freq[2] - 1) \div tune_freq[2], 1)

(* max(int(tune_freq * Nb), 1), tune_freq the fraction num/den *)
tune_interval(Nb, tune_freq) ==
    Max((tune_freq[1] * Nb) \div tune_freq[2], 1)

(* The test on the 0-based index instead of the 1-based one. *)
TuneDue_ZeroBased(idx, interval) == idx % interval = 0

(* (idx + 1) % tune_interval == 0 *)
TuneDue(idx, interval) == (idx + 1) % interval = 0

warmup_stored(st, o1, tn) ==
    IF o1.exc # "none" THEN [st EXCEPT !.o = o1, !.tunes = tn]
    ELSE IF o1.callback.tag = "missing"
    THEN [st EXCEPT !.o = Raise(o1, "AttributeError"), !.tunes = tn]
    ELSE [st EXCEPT !.o = o1, !.tunes = tn,
                    !.cb = _call_callback(o1, @, o1.current_point,
                                          Len(o1._samples.v) - 1)]

warmup_stepped(st, r, idx, interval) ==
    IF r.o.exc # "none" THEN [st EXCEPT !.o = r.o]
    ELSE LET due == TuneDue(idx, interval)
             o0 == IF due THEN tune(r.o, interval, idx \div interval) ELSE r.o
             tn == IF due THEN Append(st.tunes, [skip_len |-> interval,
                                                 update_count |-> idx \div interval,
                                                 after |-> idx + 1])
                   ELSE st.tunes
         IN  The({warmup_stored(st, o1, tn) : o1 \in {StoreSamples(o0, r.acc)}})

warmup_body(st, idx, out, interval) ==
    The({warmup_stepped(st, r, idx, interval) : r \in {step(st.o, out)}})

RECURSIVE warmup_loop(_, _, _, _, _)
warmup_loop(st, idx, Nb, outs, interval) ==
    IF idx >= Nb \/ st.o.exc # "none" THEN st
    ELSE The({warmup_loop(nx, idx + 1, Nb, outs, interval)
              : nx \in {warmup_body(st, idx, outs[idx + 1], interval)}})

warmup(o, Nb, tune_freq, outs, dir, log) ==
    warmup_loop([o |-> o, cb |-> log, h |-> _BatchHandler_init(0, dir), tunes |-> <<>>],
                0, Nb, outs, tune_interval(Nb, tune_freq))


----------------------------------------------------------------------------
(* reset, and the checkpoint interface.  A dict is a sequence of           *)
(* [k, v] items in insertion order.                                        *)

RECURSIVE SetKeysNone(_, _)
SetKeysNone(o, keys) ==
    IF keys = {} THEN o
    ELSE LET k == CHOOSE x \in keys : TRUE IN
         SetKeysNone([o EXCEPT ![k] = NONE], keys \ {k})

reset(o) ==
    initialize(SetKeysNone(SetKeysNone(o, _STATE_KEYS(o)), _HISTORY_KEYS(o)))

StateKeyOrder == <<"current_point", "current_target_logd", "scale">>

StateItems(o) ==
    LET keep(k) == k \in _STATE_KEYS(o) IN
    [i \in 1..Len(SelectSeq(StateKeyOrder, keep)) |->
        [v |-> o[SelectSeq(StateKeyOrder, keep)[i]],
         k |-> SelectSeq(StateKeyOrder, keep)[i]]]

SamplerNew_get_state(o) ==
    IF \E k \in _STATE_KEYS(o) : o[k].tag = "missing"
    THEN [o |-> Raise(o, "AttributeError"), ret |-> NONE]
    ELSE [o |-> o,
          ret |-> Val([metadata |-> [sampler_type |-> ClassName(o)],
                       state |-> StateItems(o)])]

LinearRTONew_get_state(o) ==
    [o |-> o, ret |-> Val([sampler_type |-> "LinearRTO"])]

get_state(o) ==
    IF IsRTO(o) THEN LinearRTONew_get_state(o) ELSE SamplerNew_get_state(o)

RECURSIVE SetItems(_, _, _)
SetItems(o, items, i) ==
    IF i > Len(items) THEN o
    ELSE IF items[i].k \in _STATE_KEYS(o)
    THEN SetItems([o EXCEPT ![items[i].k] = items[i].v], items, i + 1)
    ELSE Raise(o, "ValueError:key")

SamplerNew_set_state(o, state) ==
    IF "metadata" \notin DOMAIN state THEN Raise(o, "KeyError")
    ELSE IF state.metadata.sampler_type # ClassName(o) THEN Raise(o, "ValueError:type")
    ELSE IF "state" \notin DOMAIN state THEN Raise(o, "KeyError")
    ELSE SetItems(o, state.state, 1)

LinearRTONew_set_state(o, state) == o

set_state(o, state) ==
    IF IsRTO(o) THEN LinearRTONew_set_state(o, state) ELSE SamplerNew_set_state(o, state)

(* state = self.get_state(); for key, value in state['state'].items(): ... *)
(* then the record is pickled to the file.  The points of the model are    *)
(* plain arrays, which the CUQIarray conversion leaves as they are.        *)
save_checkpoint(o, file) ==
    LET r == get_state(o) IN
    IF r.o.exc # "none" THEN [o |-> r.o, file |-> file]
    ELSE IF "state" \notin DOMAIN r.ret.v THEN [o |-> Raise(r.o, "KeyError"), file |-> file]
    ELSE [o |-> r.o, file |-> r.ret]

load_checkpoint(o, file) ==
    IF ~IsVal(file) THEN Raise(o, "FileNotFoundError") ELSE set_state(o, file.v)


----------------------------------------------------------------------------
(* Exact arithmetic.  A number is a fraction <<numerator, denominator>> in *)
(* lowest terms with a positive denominator; an array is a vector (nd = 1) *)
(* or a matrix given by its rows (nd = 2).  An operator written           *)
(* F(a0) == The({... a ... : a \in {a0}}) takes its argument by value.      *)

Abs(n) == IF n < 0 THEN -n ELSE n

RECURSIVE GCD(_, _)
GCD(a0, b0) ==
    The({IF b = 0 THEN a ELSE GCD(b, a % b)
         : a \in {a0}, b \in {b0}})

Q(n0, d0) ==
    The({The({<<(IF d < 0 THEN -n ELSE n) \div k, Abs(d) \div k>> : k \in {GCD(Abs(n), Abs(d))}})
         : n \in {n0}, d \in {d0}})

QInt(n) == <<n, 1>>
QNeg(a0) ==
    The({<<-a[1], a[2]>>
         : a \in {a0}})
QAdd(a0, b0) ==
    The({The({Q(a[1] * (b[2] \div k) + b[1] * (a[2] \div k), a[2] * (b[2] \div k)) :
                 k \in {GCD(a[2], b[2])}})
         : a \in {a0}, b \in {b0}})
QSub(a0, b0) ==
    The({QAdd(a, QNeg(b))
         : a \in {a0}, b \in {b0}})
QMul(a0, b0) ==
    The({The({Q((a[1] \div k[1]) * (b[1] \div k[2]), (a[2] \div k[2]) * (b[2] \div k[1])) :
                 k \in {<<GCD(Abs(a[1]), b[2]), GCD(Abs(b[1]), a[2])>>}})
         : a \in {a0}, b \in {b0}})
QInv(a0) ==
    The({Q(a[2], a[1])
         : a \in {a0}})
QDiv(a0, b0) ==
    The({QMul(a, QInv(b))
         : a \in {a0}, b \in {b0}})
QLess(a0, b0) ==
    The({a[1] * b[2] < b[1] * a[2]
         : a \in {a0}, b \in {b0}})

RECURSIVE QPow(_, _)
QPow(a0, k0) ==
    The({IF k = 0 THEN QInt(1) ELSE QMul(a, QPow(a, k - 1))
         : a \in {a0}, k \in {k0}})

(* The integer square root, by Newton's iteration. *)
RECURSIVE Newton(_, _)
Newton(n, x) ==
    The({IF y >= x THEN x ELSE Newton(n, y) : y \in {(x + n \div x) \div 2}})

ISqrt(n0) ==
    The({IF n = 0 THEN 0 ELSE Newton(n, n)
         : n \in {n0}})

(* np.sqrt of a fraction whose root is a fraction *)
QSqrt(a0) ==
    The({<<ISqrt(a[1]), ISqrt(a[2])>>
         : a \in {a0}})

RECURSIVE QSum(_)
QSum(q0) ==
    The({IF q = <<>> THEN QInt(0) ELSE QAdd(Head(q), QSum(Tail(q)))
         : q \in {q0}})

RECURSIVE QProd(_)
QProd(q0) ==
    The({IF q = <<>> THEN QInt(1) ELSE QMul(Head(q), QProd(Tail(q)))
         : q \in {q0}})

Arr1(v) == [e |-> v, nd |-> 1]
Arr2(rows) == [e |-> rows, nd |-> 2]
NoArray == [e |-> <<>>, nd |-> 0]

Rows(A0) ==
    The({Len(A.e)                                     \* A.shape[0]
         : A \in {A0}})
Cols(A0) ==
    The({IF A.nd = 1 THEN 1 ELSE Len(A.e[1])
         : A \in {A0}})
Size(A0) ==
    The({IF A.nd = 1 THEN Len(A.e) ELSE Rows(A) * Cols(A)     \* np.size(A)
         : A \in {A0}})
At(A, i, j) == A.e[i][j]
ravel0(A) == IF A.nd = 1 THEN A.e[1] ELSE A.e[1][1]            \* A.ravel()[0]

Identity(n) == Arr2([i \in 1..n |-> [j \in 1..n |-> IF i = j THEN QInt(1) ELSE QInt(0)]])
Scale(q0, A0) ==
    The({IF A.nd = 1 THEN Arr1([i \in 1..Len(A.e) |-> QMul(q, A.e[i])])
         ELSE Arr2([i \in 1..Rows(A) |-> [j \in 1..Cols(A) |-> QMul(q, A.e[i][j])]])
         : q \in {q0}, A \in {A0}})
Map1(F(_), v0) ==
    The({Arr1([i \in 1..Len(v.e) |-> F(v.e[i])])
         : v \in {v0}})
Diag(v0) ==
    The({\* np.diag of a vector
         Arr2([i \in 1..Len(v.e) |-> [j \in 1..Len(v.e) |-> IF i = j THEN v.e[i] ELSE QInt(0)]])
         : v \in {v0}})
Diagonal(A0) ==
    The({Arr1([i \in 1..Rows(A) |-> A.e[i][i]])   \* A.diagonal()
         : A \in {A0}})
Transpose(A0) ==
    The({Arr2([j \in 1..Cols(A) |-> [i \in 1..Rows(A) |-> A.e[i][j]]])
         : A \in {A0}})
MatMul(A0, B0) ==
    The({Arr2([i \in 1..Rows(A) |-> [j \in 1..Cols(B) |->
                 QSum([k \in 1..Cols(A) |-> QMul(A.e[i][k], B.e[k][j])])]])
         : A \in {A0}, B \in {B0}})
MatVec(A0, v0) ==
    The({Arr1([i \in 1..Rows(A) |-> QSum([k \in 1..Cols(A) |-> QMul(A.e[i][k], v.e[k])])])
         : A \in {A0}, v \in {v0}})
VecSub(u0, v0) ==
    The({Arr1([i \in 1..Len(u.e) |-> QSub(u.e[i], v.e[i])])
         : u \in {u0}, v \in {v0}})
VecAdd(u0, v0) ==
    The({Arr1([i \in 1..Len(u.e) |-> QAdd(u.e[i], v.e[i])])
         : u \in {u0}, v \in {v0}})
Dot(u0, v0) ==
    The({QSum([i \in 1..Len(u.e) |-> QMul(u.e[i], v.e[i])])
         : u \in {u0}, v \in {v0}})

IsDiagonal(A0) ==
    The({\A i \in 1..Rows(A), j \in 1..Cols(A) : i # j => A.e[i][j] = QInt(0)
         : A \in {A0}})
IsSymmetric(A0) ==
    The({A = Transpose(A)
         : A \in {A0}})
IsLower(A0) ==
    The({\A i \in 1..Rows(A), j \in 1..Cols(A) : i < j => A.e[i][j] = QInt(0)
         : A \in {A0}})

(* Determinant and inverse of a 2 x 2 matrix. *)
Det(A0) ==
    The({QSub(QMul(A.e[1][1], A.e[2][2]), QMul(A.e[1][2], A.e[2][1]))
         : A \in {A0}})
Inv(A0) ==
    The({Scale(QInv(Det(A)), Arr2(<<<<A.e[2][2], QNeg(A.e[1][2])>>,
                                     <<QNeg(A.e[2][1]), A.e[1][1]>>>>))
         : A \in {A0}})

(* The lower triangular L with positive diagonal and L @ L.T = A. *)
Cholesky(A0) ==
    The({The({The({Arr2(<<<<l11, QInt(0)>>, <<l21, QSqrt(QSub(A.e[2][2], QMul(l21, l21)))>>>>) :
                      l21 \in {QDiv(A.e[2][1], l11)}}) : l11 \in {QSqrt(A.e[1][1])}})
         : A \in {A0}})

(* scipy.linalg.eigh of a symmetric 2 x 2 matrix: the eigenvalues s in     *)
(* ascending order and one eigenvector for each, not yet normalized.  The  *)
(* solver returns each normalized eigenvector with a sign of its choosing. *)
eigh(A0) ==
    The({IF A.e[1][2] = QInt(0)
         THEN IF QLess(A.e[2][2], A.e[1][1])
              THEN [s |-> <<A.e[2][2], A.e[1][1]>>,
                    v |-> <<<<QInt(0), QInt(1)>>, <<QInt(1), QInt(0)>>>>]
              ELSE [s |-> <<A.e[1][1], A.e[2][2]>>,
                    v |-> <<<<QInt(1), QInt(0)>>, <<QInt(0), QInt(1)>>>>]
         ELSE The({[s |-> <<l[1], l[2]>>,
                    v |-> <<<<A.e[1][2], QSub(l[1], A.e[1][1])>>,
                            <<A.e[1][2], QSub(l[2], A.e[1][1])>>>>] :
                   l \in {The({<<QDiv(QSub(t, r), QInt(2)), QDiv(QAdd(t, r), QInt(2))>> :
                                 t \in {QAdd(A.e[1][1], A.e[2][2])},
                                 r \in {QSqrt(QAdd(QMul(QSub(A.e[1][1], A.e[2][2]),
                                                        QSub(A.e[1][1], A.e[2][2])),
                                                   QMul(QInt(4), QMul(A.e[1][2], A.e[1][2]))))}})}})
         : A \in {A0}})

(* np.multiply(u, np.sqrt(w)): column i is the normalized eigenvector i,   *)
(* with the solver's sign, times the root of w[i].                         *)
ScaledEigenvectors(eig0, w0, sign0) ==
    The({The({Arr2([i \in 1..2 |-> [j \in 1..2 |-> QMul(QInt(sign[j]), QMul(eig.v[j][i], c[j]))]]) :
               c \in {[j \in 1..2 |->
                          QSqrt(QDiv(w[j], QAdd(QMul(eig.v[j][1], eig.v[j][1]),
                                                QMul(eig.v[j][2], eig.v[j][2]))))]}})
         : eig \in {eig0}, w \in {w0}, sign \in {sign0}})

----------------------------------------------------------------------------
(* get_samples *)

(* np.array(self._samples).T: the points of the list are the rows of the   *)
(* new array and the columns of its transpose; an empty list gives the     *)
(* empty one-dimensional array, points of unequal length no array.         *)
SamplesArray(samples) ==
    IF samples = <<>> THEN Arr1(<<>>)
    ELSE Arr2([i \in 1..Len(samples[1].v) |-> [j \in 1..Len(samples) |-> samples[j].v[i]]])

(* Samples(np.array(self._samples).T, self.target.geometry).  owndata: the *)
(* array has a buffer of its own, which np.array allocates.                *)
get_samples(o) ==
    IF o._samples.tag = "missing" THEN [o |-> Raise(o, "AttributeError"), ret |-> NONE]
    ELSE IF IsVal(o._samples)
            /\ \E j \in 1..Len(o._samples.v) :
                   ~IsVal(o._samples.v[j]) \/ Len(o._samples.v[j].v) # Len(o._samples.v[1].v)
    THEN [o |-> Raise(o, "ValueError:inhomogeneous"), ret |-> NONE]
    ELSE IF ~IsVal(o._target) THEN [o |-> Raise(o, "AttributeError"), ret |-> NONE]
    ELSE [o |-> o,
          ret |-> Val([samples |-> IF IsVal(o._samples) THEN SamplesArray(o._samples.v)
                                   ELSE NoArray,
                       owndata |-> TRUE, geometry |-> o._target.v.dim])]

----------------------------------------------------------------------------
(* Gaussian.  A matrix argument is the array force_ndarray hands to the    *)
(* factorizations (a scalar is a 1 x 1 array) and whether it is a scipy    *)
(* sparse matrix; a callable argument carries no array.  big says          *)
(* self.dim > config.MIN_DIM_SPARSE (the sparse_flag of the setters),      *)
(* chols that sksparse.cholmod was importable when the module was loaded,  *)
(* esign the sign the eigensolver gives each eigenvector.                  *)

(* The mean every Gaussian is built with, and self.dim, its length. *)
MeanArg == Arr1(<<QInt(1), QInt(2)>>)
Dim == Len(MeanArg.e)

Matrix(name, x, sparse) == [x |-> x, callable |-> FALSE, name |-> name, sparse |-> sparse]

M2(a, b, c, d) == Arr2(<<<<a, b>>, <<c, d>>>>)

(* A precision whose Cholesky factor, eigenvalues and scaled eigenvectors  *)
(* are fractions, its inverse, and factors of both.                        *)
PrecFull == M2(QInt(25), QInt(-7), QInt(-7), QInt(25))
CovFull == Inv(PrecFull)
SqrtprecFull == Transpose(Cholesky(PrecFull))       \* R with R.T @ R = PrecFull
SqrtcovFull == Inv(SqrtprecFull)                    \* S with S @ S.T = CovFull

(* The variance 4 in each representation; a square root of it may be      *)
(* negative ("nscalar").  "row" is a 1-by-Dim array and "long" a flat      *)
(* array of Dim + 1 entries.                                               *)
IsoOf(rep) ==
    IF rep = "cov" THEN QInt(4)
    ELSE IF rep = "prec" THEN Q(1, 4)
    ELSE IF rep = "sqrtcov" THEN QInt(2)
    ELSE Q(1, 2)

FullOf(rep) ==
    IF rep = "cov" THEN CovFull
    ELSE IF rep = "prec" THEN PrecFull
    ELSE IF rep = "sqrtcov" THEN SqrtcovFull
    ELSE SqrtprecFull

(* The value of each class that is assigned to the property rep. *)
Value(rep, name) ==
    IF name = "scalar" THEN Matrix(name, Arr2(<<<<IsoOf(rep)>>>>), FALSE)
    ELSE IF name = "nscalar" THEN Matrix(name, Arr2(<<<<QNeg(IsoOf(rep))>>>>), FALSE)
    ELSE IF name = "vector" THEN Matrix(name, Arr1(<<IsoOf(rep), IsoOf(rep)>>), FALSE)
    ELSE IF name = "row" THEN Matrix(name, Arr2(<<<<IsoOf(rep), QInt(9)>>>>), FALSE)
    ELSE IF name = "long"
    THEN Matrix(name, Arr1(<<IsoOf(rep), IsoOf(rep), IsoOf(rep)>>), FALSE)
    ELSE IF name = "diag" THEN Matrix(name, Scale(IsoOf(rep), Identity(Dim)), FALSE)
    ELSE IF name = "sdiag" THEN Matrix(name, Scale(IsoOf(rep), Identity(Dim)), TRUE)
    ELSE IF name = "full" THEN Matrix(name, FullOf(rep), FALSE)
    ELSE IF name = "sparse" THEN Matrix(name, FullOf(rep), TRUE)
    ELSE IF name = "asym"
    THEN IF rep \in {"cov", "prec"}
         THEN Matrix(name, M2(QInt(5), QInt(3), QInt(-3), QInt(2)), FALSE)
         ELSE Matrix(name, Transpose(FullOf(IF rep = "sqrtcov" THEN "sqrtprec" ELSE "sqrtcov")),
                     FALSE)
    ELSE IF name = "sing"
    THEN IF rep \in {"cov", "prec"}
         THEN Matrix(name, M2(QInt(1), QInt(1), QInt(1), QInt(1)), FALSE)
         ELSE Matrix(name, M2(QInt(1), QInt(0), QInt(1), QInt(0)), FALSE)
    ELSE IF name = "indef" THEN Matrix(name, M2(QInt(1), QInt(2), QInt(2), QInt(1)), FALSE)
    ELSE [Matrix(name, NoArray, FALSE) EXCEPT !.callable = TRUE]

CovLike == {"cov", "prec", "sqrtcov", "sqrtprec"}

ValueNames(rep) ==
    {"scalar", "vector", "diag", "sdiag", "full", "sparse", "asym", "sing", "callable", "long"}
        \cup (IF rep \in {"cov", "prec"} THEN {"indef"} ELSE {"nscalar"})
        \cup (IF rep = "sqrtprec" THEN {} ELSE {"row"})

(* An argument is named by its class; "none" names None. *)
ValueArg(rep, name) == IF name = "none" THEN NONE ELSE Val(Value(rep, name))

GaussValues(rep) == {"none", "scalar", "diag", "full", "sparse", "asym", "callable"}
GaussInitValues(rep) == {"none", "scalar", "asym"}

NewGaussian(big, chols) ==
    [exc |-> "none", big |-> big, chols |-> chols, exists |-> TRUE, esign |-> <<1, 1>>,
     _mean |-> MISSING, _mutable_vars |-> MISSING,
     _cov |-> MISSING, _prec |-> MISSING, _sqrtcov |-> MISSING, _sqrtprec |-> MISSING,
     _logdet |-> MISSING, _rank |-> MISSING]

NoGaussian == [NewGaussian(FALSE, FALSE) EXCEPT !.exists = FALSE]

(* A computed matrix: which quantity, from which representation of which   *)
(* argument, by which branch, stored sparse or dense, and its entries.     *)
Computed(what, rep, m, how, sparse, x) ==
    Val([x |-> x, of |-> m.name, sparse |-> sparse, what |-> what, how |-> how, from |-> rep])

(* np.log of a fraction, kept as its argument; sums of logarithms are the  *)
(* logarithm of the product and -np.log(q) is the logarithm of 1/q.        *)
Log(q) == [log |-> q]
NegLog(q) == IF q[1] = 0 THEN [log |-> "inf"] ELSE Log(QInv(q))

(* A factorization that reports a log-determinant on every branch. *)
Factors_AlwaysLogdet(rep, m, how, sparse, prec, sqrtprec, logdet, rank) ==
    [exc |-> "none",
     prec |-> IF prec = NONE THEN NONE ELSE Computed("prec", rep, m, how, sparse, prec),
     sqrtprec |-> Computed("sqrtprec", rep, m, how, sparse, sqrtprec),
     logdet |-> IF logdet = NONE THEN Val(Log(QInt(1))) ELSE Val(logdet),
     rank |-> Val(rank)]

(* What a factorization returns: prec (None where the function returns no  *)
(* precision), sqrtprec, logdet (None where it is not computed) and rank.  *)
Factors(rep, m, how, sparse, prec, sqrtprec, logdet, rank) ==
    [exc |-> "none",
     prec |-> IF prec = NONE THEN NONE ELSE Computed("prec", rep, m, how, sparse, prec),
     sqrtprec |-> Computed("sqrtprec", rep, m, how, sparse, sqrtprec),
     logdet |-> IF logdet = NONE THEN NONE ELSE Val(logdet),
     rank |-> Val(rank)]

Fails(e) == [exc |-> e, prec |-> NONE, sqrtprec |-> NONE, logdet |-> NONE, rank |-> NONE]

(* The shape class the four factorizations test for, in their order; the   *)
(* branch taken is recorded with the result ("scalar", "vector", "diag",  *)
(* or the method of the full branch).                                      *)
IsScalar(A) == Rows(A.x) = 1                                  \* A.shape[0] == 1
IsVector(A) == ~A.sparse /\ Rows(A.x) = Size(A.x)   \* not issparse and shape[0] == size
IsDiag(A) == IsDiagonal(A.x)          \* count_nonzero(A - diag(A.diagonal())) == 0

(* 1/v, sqrt(1/v), v**2 and -log terms, entry by entry *)
QInvSqrt(q) == QSqrt(QInv(q))
QSquare(q) == QMul(q, q)

(* np.linalg.matrix_rank and scipy.sparse.csgraph.structural_rank *)
matrix_rank(A) ==
    IF Det(A) # QInt(0) THEN 2
    ELSE IF \E i \in 1..2, j \in 1..2 : A.e[i][j] # QInt(0) THEN 1 ELSE 0

structural_rank(A) ==
    IF (A.e[1][1] # QInt(0) /\ A.e[2][2] # QInt(0)) \/ (A.e[1][2] # QInt(0) /\ A.e[2][1] # QInt(0))
    THEN 2
    ELSE IF \E i \in 1..2, j \in 1..2 : A.e[i][j] # QInt(0) THEN 1 ELSE 0

(* np.linalg.cholesky raises LinAlgError unless its argument is positive   *)
(* definite; np.linalg.inv raises it on a singular matrix.                 *)
IsPositiveDefinite(A) == QLess(QInt(0), A.e[1][1]) /\ QLess(QInt(0), Det(A))

(* cuqi.utilities.sparse_cholesky: the upper triangular U, U.T @ U = A;    *)
(* sksparse's Factor.L(): the lower triangular L, L @ L.T = A.             *)
sparse_cholesky(A) == Transpose(Cholesky(A))
cholmod_L(A) == Cholesky(A)

(* The eigenvalue cutoff eps is far below every nonzero eigenvalue met     *)
(* here and above the rounding of a zero one.                              *)
Positive(sv) == SelectSeq(sv, LAMBDA q : QLess(QInt(0), q))
PseudoInverse(sv) == [j \in 1..Len(sv) |-> IF sv[j] = QInt(0) THEN QInt(0) ELSE QInv(sv[j])]

(* The eigendecomposition branch shared by cov and sqrtcov: U = u *        *)
(* sqrt(s_pinv); the sign-corrected product assigned to sqrtprec first is  *)
(* overwritten by sqrtprec = U.T.                                          *)
FromCovEigh(rep, m, cov, esign) ==
    The({IF QLess(eig.s[1], QInt(0)) THEN Fails("ValueError:psd")
         ELSE The({Factors(rep, m, "eigh", FALSE, MatMul(Transpose(R), R), R,
                           Log(QProd(Positive(eig.s))), Len(Positive(eig.s))) :
                   R \in {Transpose(ScaledEigenvectors(eig, PseudoInverse(eig.s), esign))}}) :
         eig \in {eigh(cov)}})

(* The dense branch shared by cov and sqrtcov. *)
FromCovDense(rep, m, cov) ==
    IF Det(cov) = QInt(0) THEN Fails("LinAlgError")                  \* nplinalg.inv
    ELSE IF ~IsPositiveDefinite(Inv(cov)) THEN Fails("LinAlgError")  \* nplinalg.cholesky
    ELSE Factors(rep, m, "cholesky", FALSE, Inv(cov), Transpose(Cholesky(Inv(cov))),
                 Log(Det(cov)), matrix_rank(cov))

get_sqrtprec_from_cov(cov, sparse_flag, chols, esign) ==
    IF IsScalar(cov)
    THEN Factors("cov", cov, "scalar", sparse_flag,
                 Scale(QInv(ravel0(cov.x)), Identity(Dim)),
                 Scale(QInvSqrt(ravel0(cov.x)), Identity(Dim)),
                 Log(QPow(ravel0(cov.x), Dim)), Dim)
    ELSE IF IsVector(cov)
    THEN Factors("cov", cov, "vector", sparse_flag,
                 Diag(Map1(QInv, cov.x)), Diag(Map1(QInvSqrt, cov.x)),
                 Log(QProd(cov.x.e)), Dim)
    ELSE IF IsDiag(cov)
    THEN Factors("cov", cov, "diag", sparse_flag,
                 Diag(Map1(QInv, Diagonal(cov.x))), Diag(Map1(QInvSqrt, Diagonal(cov.x))),
                 Log(QProd(Diagonal(cov.x).e)), Dim)
    ELSE IF cov.sparse
    THEN IF chols
         THEN Factors("cov", cov, "cholmod", TRUE, Inv(cov.x), sparse_cholesky(Inv(cov.x)),
                      Log(Det(cov.x)), structural_rank(cov.x))
         ELSE Factors("cov", cov, "splu", TRUE, Inv(cov.x), sparse_cholesky(Inv(cov.x)),
                      NONE, structural_rank(cov.x))
    ELSE IF ~IsSymmetric(cov.x) THEN Fails("ValueError:symmetric")
    ELSE IF sparse_flag THEN FromCovEigh("cov", cov, cov.x, esign)
    ELSE FromCovDense("cov", cov, cov.x)

get_sqrtprec_from_prec(prec, sparse_flag, chols, esign) ==
    IF IsScalar(prec)
    THEN Factors("prec", prec, "scalar", sparse_flag, NONE,
                 Scale(QSqrt(ravel0(prec.x)), Identity(Dim)),
                 NegLog(QPow(ravel0(prec.x), Dim)), Dim)
    ELSE IF IsVector(prec)
    THEN Factors("prec", prec, "vector", sparse_flag, NONE,
                 Diag(Map1(QSqrt, prec.x)), NegLog(QProd(prec.x.e)), Dim)
    ELSE IF IsDiag(prec)
    THEN Factors("prec", prec, "diag", sparse_flag, NONE,
                 Diag(Map1(QSqrt, Diagonal(prec.x))), NegLog(QProd(Diagonal(prec.x).e)), Dim)
    ELSE IF prec.sparse
    THEN IF chols
         THEN Factors("prec", prec, "cholmod", TRUE, NONE, cholmod_L(prec.x),
                      NegLog(Det(prec.x)), structural_rank(prec.x))
         ELSE Factors("prec", prec, "splu", TRUE, NONE, sparse_cholesky(prec.x),
                      NONE, structural_rank(prec.x))
    ELSE IF ~IsSymmetric(prec.x) THEN Fails("ValueError:symmetric")
    ELSE IF sparse_flag
    THEN The({IF QLess(eig.s[1], QInt(0)) THEN Fails("ValueError:psd")
              ELSE Factors("prec", prec, "eigh", FALSE, NONE,
                           Transpose(ScaledEigenvectors(eig, eig.s, esign)),
                           NegLog(QProd(Positive(eig.s))), Len(Positive(eig.s))) :
              eig \in {eigh(prec.x)}})
    ELSE IF ~IsPositiveDefinite(prec.x) THEN Fails("LinAlgError")    \* nplinalg.cholesky
    ELSE Factors("prec", prec, "cholesky", FALSE, NONE, Transpose(Cholesky(prec.x)),
                 NegLog(Det(prec.x)), matrix_rank(prec.x))

(* A factorization that takes the square root for the covariance. *)
get_sqrtprec_from_sqrtcov_AsCov(sqrtcov, sparse_flag, chols, esign) ==
    get_sqrtprec_from_cov(sqrtcov, sparse_flag, chols, esign)

(* cov = sqrtcov @ sqrtcov.T on the full branches *)
get_sqrtprec_from_sqrtcov(sqrtcov, sparse_flag, chols, esign) ==
    IF IsScalar(sqrtcov)
    THEN Factors("sqrtcov", sqrtcov, "scalar", sparse_flag,
                 Scale(QInv(QSquare(ravel0(sqrtcov.x))), Identity(Dim)),
                 Scale(QInv(ravel0(sqrtcov.x)), Identity(Dim)),
                 Log(QPow(QSquare(ravel0(sqrtcov.x)), Dim)), Dim)
    ELSE IF IsVector(sqrtcov)
    THEN Factors("sqrtcov", sqrtcov, "vector", sparse_flag,
                 Diag(Map1(QInv, Map1(QSquare, sqrtcov.x))), Diag(Map1(QInv, sqrtcov.x)),
                 Log(QProd(Map1(QSquare, sqrtcov.x).e)), Dim)
    ELSE IF IsDiag(sqrtcov)
    THEN Factors("sqrtcov", sqrtcov, "diag", sparse_flag,
                 Diag(Map1(QInv, Map1(QSquare, Diagonal(sqrtcov.x)))),
                 Diag(Map1(QInv, Diagonal(sqrtcov.x))),
                 Log(QProd(Map1(QSquare, Diagonal(sqrtcov.x)).e)), Dim)
    ELSE IF sqrtcov.sparse
    THEN IF chols
         THEN The({Factors("sqrtcov", sqrtcov, "cholmod", TRUE, Inv(cov),
                           sparse_cholesky(Inv(cov)), Log(Det(cov)), structural_rank(cov)) :
                   cov \in {MatMul(sqrtcov.x, Transpose(sqrtcov.x))}})
         ELSE Fails("NotImplementedError")
    ELSE IF sparse_flag
    THEN FromCovEigh("sqrtcov", sqrtcov, MatMul(sqrtcov.x, Transpose(sqrtcov.x)), esign)
    ELSE FromCovDense("sqrtcov", sqrtcov, MatMul(sqrtcov.x, Transpose(sqrtcov.x)))

(* The diagonal and full branches return the argument itself as sqrtprec;  *)
(* prec = sqrtprec @ sqrtprec.T serves the log-determinant and the rank.   *)
get_sqrtprec_from_sqrtprec(sqrtprec, sparse_flag, chols, esign) ==
    IF IsScalar(sqrtprec)
    THEN Factors("sqrtprec", sqrtprec, "scalar", sparse_flag, NONE,
                 Diag(Scale(ravel0(sqrtprec.x), Arr1([i \in 1..Dim |-> QInt(1)]))),
                 NegLog(QPow(QSquare(ravel0(sqrtprec.x)), Dim)), Dim)
    ELSE IF IsVector(sqrtprec)
    THEN Factors("sqrtprec", sqrtprec, "vector", sparse_flag, NONE,
                 Diag(sqrtprec.x), NegLog(QProd(Map1(QSquare, sqrtprec.x).e)), Dim)
    ELSE IF IsDiag(sqrtprec)
    THEN [Factors("sqrtprec", sqrtprec, "diag", sqrtprec.sparse, NONE, sqrtprec.x,
                  NegLog(QProd(Map1(QSquare, Diagonal(sqrtprec.x)).e)), Dim)
             EXCEPT !.sqrtprec = Val(sqrtprec)]
    ELSE IF sqrtprec.sparse
    THEN IF chols
         THEN The({[Factors("sqrtprec", sqrtprec, "cholmod", TRUE, NONE, sqrtprec.x,
                            NegLog(Det(prec)), structural_rank(prec))
                       EXCEPT !.sqrtprec = Val(sqrtprec)] :
                   prec \in {MatMul(sqrtprec.x, Transpose(sqrtprec.x))}})
         ELSE Fails("NotImplementedError")
    ELSE IF sparse_flag
    THEN The({IF QLess(eig.s[1], QInt(0)) THEN Fails("ValueError:psd")
              ELSE [Factors("sqrtprec", sqrtprec, "eigh", FALSE, NONE, sqrtprec.x,
                            NegLog(QProd(Positive(eig.s))), Len(Positive(eig.s)))
                       EXCEPT !.sqrtprec = Val(sqrtprec)] :
              eig \in {eigh(MatMul(sqrtprec.x, Transpose(sqrtprec.x)))}})
    ELSE The({[Factors("sqrtprec", sqrtprec, "det", FALSE, NONE, sqrtprec.x,
                       NegLog(Det(prec)), matrix_rank(prec))
                  EXCEPT !.sqrtprec = Val(sqrtprec)] :
              prec \in {MatMul(sqrtprec.x, Transpose(sqrtprec.x))}})

(* The factorization the setter of rep computes from its value, computed   *)
(* once for every value, sparse_flag, library and eigensolver of the model *)
(* rather than at every assignment.                                        *)
get_sqrtprec_from(rep, value, sparse_flag, chols, esign) ==
    IF rep = "cov" THEN get_sqrtprec_from_cov(value, sparse_flag, chols, esign)
    ELSE IF rep = "prec" THEN get_sqrtprec_from_prec(value, sparse_flag, chols, esign)
    ELSE IF rep = "sqrtcov" THEN get_sqrtprec_from_sqrtcov(value, sparse_flag, chols, esign)
    ELSE get_sqrtprec_from_sqrtprec(value, sparse_flag, chols, esign)

ESigns == {<<1, 1>>, <<-1, 1>>, <<1, -1>>, <<-1, -1>>}

FactorizationKeys ==
    UNION {{<<rep, name, sparse_flag, chols, esign>> :
               name \in ValueNames(rep) \ {"callable"}, sparse_flag \in BOOLEAN,
               chols \in BOOLEAN, esign \in ESigns} : rep \in CovLike}

Factorizations ==
    [k \in FactorizationKeys |->
        get_sqrtprec_from(k[1], Value(k[1], k[2]), k[3], k[4], k[5])] @@ <<>>

Factorization(rep0, value0, sparse_flag0, chols0, esign0) ==
    The({Factorizations[<<rep, value.name, sparse_flag, chols, esign>>]
         : rep \in {rep0}, value \in {value0}, sparse_flag \in {sparse_flag0}, chols \in {chols0}, esign \in {esign0}})

(* A setter that checks nothing. *)
IsMutable_Always(o, name) == TRUE

(* 'name' in self._mutable_vars *)
IsMutable(o0, name0) ==
    The({\E i \in 1..Len(o._mutable_vars.v) : o._mutable_vars.v[i] = name
         : o \in {o0}, name \in {name0}})

(* (value is not None) and (not callable(value)) *)
Factorizable(value0) ==
    The({IsVal(value) /\ ~value.v.callable
         : value \in {value0}})

cov_fset(o0, value0) ==
    The({IF o._mutable_vars.tag = "missing" THEN Raise(o, "AttributeError")
         ELSE IF ~IsMutable(o, "cov") THEN Raise(o, "ValueError:mutable")
         ELSE The({IF ~Factorizable(value) THEN o1
                   ELSE The({IF f.exc # "none" THEN Raise(o1, f.exc)
                             ELSE [o1 EXCEPT !._prec = f.prec, !._sqrtprec = f.sqrtprec,
                                       !._logdet = f.logdet, !._rank = f.rank] :
                             f \in {Factorization("cov", value.v, o.big, o.chols, o.esign)}}) :
                   o1 \in {[o EXCEPT !._cov = value]}})
         : o \in {o0}, value \in {value0}})

prec_fset(o0, value0) ==
    The({IF o._mutable_vars.tag = "missing" THEN Raise(o, "AttributeError")
         ELSE IF ~IsMutable(o, "prec") THEN Raise(o, "ValueError:mutable")
         ELSE The({IF ~Factorizable(value) THEN o1
                   ELSE The({IF f.exc # "none" THEN Raise(o1, f.exc)
                             ELSE [o1 EXCEPT !._cov = NONE, !._sqrtprec = f.sqrtprec,
                                       !._logdet = f.logdet, !._rank = f.rank] :
                             f \in {Factorization("prec", value.v, o.big, o.chols, o.esign)}}) :
                   o1 \in {[o EXCEPT !._prec = value]}})
         : o \in {o0}, value \in {value0}})

sqrtcov_fset(o0, value0) ==
    The({IF o._mutable_vars.tag = "missing" THEN Raise(o, "AttributeError")
         ELSE IF ~IsMutable(o, "sqrtcov") THEN Raise(o, "ValueError:mutable")
         ELSE The({IF ~Factorizable(value) THEN o1
                   ELSE The({IF f.exc # "none" THEN Raise(o1, f.exc)
                             ELSE [o1 EXCEPT !._cov = NONE, !._prec = f.prec, !._sqrtprec = f.sqrtprec,
                                       !._logdet = f.logdet, !._rank = f.rank] :
                             f \in {Factorization("sqrtcov", value.v, o.big, o.chols, o.esign)}}) :
                   o1 \in {[o EXCEPT !._sqrtcov = value]}})
         : o \in {o0}, value \in {value0}})

sqrtprec_fset(o0, value0) ==
    The({IF o._mutable_vars.tag = "missing" THEN Raise(o, "AttributeError")
         ELSE IF ~IsMutable(o, "sqrtprec") THEN Raise(o, "ValueError:mutable")
         ELSE The({IF ~Factorizable(value) THEN o1
                   ELSE The({IF f.exc # "none" THEN Raise(o1, f.exc)
                             ELSE [o1 EXCEPT !._prec = NONE, !._cov = NONE, !._sqrtprec = f.sqrtprec,
                                       !._logdet = f.logdet, !._rank = f.rank] :
                             f \in {Factorization("sqrtprec", value.v, o.big, o.chols, o.esign)}}) :
                   o1 \in {[o EXCEPT !._sqrtprec = value]}})
         : o \in {o0}, value \in {value0}})

Gaussian_fset(o0, name0, value0) ==
    The({IF name = "cov" THEN cov_fset(o, value)
         ELSE IF name = "prec" THEN prec_fset(o, value)
         ELSE IF name = "sqrtcov" THEN sqrtcov_fset(o, value)
         ELSE sqrtprec_fset(o, value)
         : o \in {o0}, name \in {name0}, value \in {value0}})

(* A count that stops at the first argument given. *)
Given_FirstOnly(cov, prec, sqrtcov, sqrtprec) ==
    IF <<cov, prec, sqrtcov, sqrtprec>> = <<NONE, NONE, NONE, NONE>> THEN 0 ELSE 1

(* (cov is not None) + (prec is not None) + (sqrtprec is not None)         *)
(*     + (sqrtcov is not None)                                             *)
Given(cov, prec, sqrtcov, sqrtprec) ==
    Cardinality({i \in 1..4 : <<cov, prec, sqrtprec, sqrtcov>>[i] # NONE})

Gaussian_init(o0, cov0, prec0, sqrtcov0, sqrtprec0) ==
    The({The({IF o1.exc # "none" THEN o1
              ELSE IF cov # NONE
              THEN cov_fset([o1 EXCEPT !._mutable_vars = Val(<<"mean", "cov">>)], cov)
              ELSE IF prec # NONE
              THEN prec_fset([o1 EXCEPT !._mutable_vars = Val(<<"mean", "prec">>)], prec)
              ELSE IF sqrtcov # NONE
              THEN sqrtcov_fset([o1 EXCEPT !._mutable_vars = Val(<<"mean", "sqrtcov">>)], sqrtcov)
              ELSE IF sqrtprec # NONE
              THEN sqrtprec_fset([o1 EXCEPT !._mutable_vars = Val(<<"mean", "sqrtprec">>)],
                                 sqrtprec)
              ELSE o1 :
              o1 \in {The({IF n = 0
                           THEN cov_fset([om EXCEPT !._mutable_vars = Val(<<"mean", "cov">>)], cov)
                           ELSE IF n # 1 THEN Raise(om, "ValueError:exactly_one")
                           ELSE om :
                           om \in {[o EXCEPT !._mean = Val(MeanArg)]},
                           n \in {Given(cov, prec, sqrtcov, sqrtprec)}})}})
         : o \in {o0}, cov \in {cov0}, prec \in {prec0}, sqrtcov \in {sqrtcov0}, sqrtprec \in {sqrtprec0}})

(* self.sqrtprec @ v: the attribute must exist and hold a matrix. *)
SqrtprecUsable(o0) ==
    The({IF o._sqrtprec.tag = "missing" \/ o._mean.tag = "missing" THEN "AttributeError"
         ELSE IF ~IsVal(o._sqrtprec) THEN "TypeError"
         ELSE IF "callable" \in DOMAIN o._sqrtprec.v /\ o._sqrtprec.v.callable
         THEN "TypeError"
         ELSE "none"
         : o \in {o0}})

(* Un-normalized log density: -0.5 * sum((sqrtprec @ (x - mean))**2) *)
_logupdf(o, x) ==
    IF SqrtprecUsable(o) # "none" THEN [o |-> Raise(o, SqrtprecUsable(o)), ret |-> NONE]
    ELSE [o |-> o,
          ret |-> Val(QMul(Q(-1, 2),
                           QSum(Map1(QSquare, MatVec(o._sqrtprec.v.x, VecSub(x, o._mean.v))).e)))]

(* A logpdf that does not look at logdet before it normalizes. *)
logpdf_Unchecked(o, x) ==
    IF o._logdet.tag = "missing" \/ o._rank.tag = "missing"
    THEN [o |-> Raise(o, "AttributeError"), ret |-> NONE]
    ELSE LET up == _logupdf(o, x) IN
         IF up.o.exc # "none" THEN up
         ELSE [o |-> o, ret |-> Val([logdet |-> o._logdet, rank |-> o._rank.v,
                                     logup |-> up.ret.v])]

(* Z = -0.5*(rank*log(2*pi) + logdet); the result Z + _logupdf(x) is kept  *)
(* as the rank, the log-determinant and the un-normalized density it is    *)
(* the sum of.                                                             *)
logpdf(o, x) ==
    IF o._logdet.tag = "missing" THEN [o |-> Raise(o, "AttributeError"), ret |-> NONE]
    ELSE IF o._logdet = NONE THEN [o |-> Raise(o, "NotImplementedError"), ret |-> NONE]
    ELSE IF o._rank.tag = "missing" THEN [o |-> Raise(o, "AttributeError"), ret |-> NONE]
    ELSE LET up == _logupdf(o, x) IN
         IF up.o.exc # "none" THEN up
         ELSE [o |-> o, ret |-> Val([logdet |-> o._logdet.v, rank |-> o._rank.v,
                                     logup |-> up.ret.v])]

(* -(self.prec @ (val - self.mean).T) for a mean that is not callable: the *)
(* product of a matrix and the deviation is a vector, that of a vector and *)
(* the deviation is their inner product, a number (nd = 0).                *)
gradient(o, val) ==
    IF o._mean.tag = "missing" \/ o._prec.tag = "missing"
    THEN [o |-> Raise(o, "AttributeError"), ret |-> NONE]
    ELSE IF ~IsVal(o._prec) \/ ("callable" \in DOMAIN o._prec.v /\ o._prec.v.callable)
    THEN [o |-> Raise(o, "TypeError"), ret |-> NONE]
    ELSE IF Cols(o._prec.v.x) # Len(o._mean.v.e) /\ o._prec.v.x.nd = 2
    THEN [o |-> Raise(o, "ValueError:matmul"), ret |-> NONE]
    ELSE IF o._prec.v.x.nd = 1
    THEN [o |-> o, ret |-> Val([e |-> QNeg(Dot(o._prec.v.x, VecSub(val, o._mean.v))), nd |-> 0])]
    ELSE [o |-> o,
          ret |-> Val(Scale(QInt(-1), MatVec(o._prec.v.x, VecSub(val, o._mean.v))))]

(* A random source: the seed it was given and how many numbers were drawn  *)
(* from it since.  Noise(seed, i) is the i-th standard normal number of    *)
(* the stream that seed determines.                                        *)
Seeds == {3}         \* the seeds a caller gives
RandomState(seed) == [seed |-> seed, pos |-> 0]
Unseeded == RandomState(0)      \* the global source as the process starts it
Noise(seed, i) == QInt(((seed + 2 * i) % 5) - 2)

(* source.randn(k, N): k * N numbers of the stream, row by row *)
randn(source0, k0, N0) ==
    The({[e |-> Arr2([i \in 1..k |-> [j \in 1..N |-> Noise(source.seed, source.pos + (i - 1) * N + j)]]),
          source |-> [source EXCEPT !.pos = @ + k * N]]
         : source \in {source0}, k \in {k0}, N \in {N0}})

(* The three solvers of sqrtprec @ p = e.  scipy.linalg.solve raises on a  *)
(* singular matrix; solve_triangular reads the upper triangle (lower=False)*)
(* and raises on a zero diagonal entry; spsolve warns and returns NaN.     *)
NaN == <<0, 0>>
Solved(x) == [x |-> x, exc |-> "none"]
UpperOf(A0) ==
    The({Arr2([i \in 1..Rows(A) |-> [j \in 1..Cols(A) |-> IF j < i THEN QInt(0) ELSE A.e[i][j]]])
         : A \in {A0}})
solve(A0, B0) ==
    The({IF Det(A) = QInt(0) THEN [x |-> NoArray, exc |-> "LinAlgError"] ELSE Solved(MatMul(Inv(A), B))
         : A \in {A0}, B \in {B0}})
solve_triangular(A0, B0) ==
    The({IF Det(UpperOf(A)) = QInt(0) THEN [x |-> NoArray, exc |-> "LinAlgError"]
         ELSE Solved(MatMul(Inv(UpperOf(A)), B))
         : A \in {A0}, B \in {B0}})
spsolve(A0, B0) ==
    The({IF Det(A) = QInt(0) THEN Solved(Arr2([i \in 1..Rows(B) |-> [j \in 1..Cols(B) |-> NaN]]))
         ELSE Solved(MatMul(Inv(A), B))
         : A \in {A0}, B \in {B0}})

(* self.mean[:, None] + perturbation *)
AddMean(mean0, P0) ==
    The({Arr2([i \in 1..Rows(P) |-> [j \in 1..Cols(P) |->
                 IF P.e[i][j] = NaN THEN NaN ELSE QAdd(mean.e[i], P.e[i][j])]])
         : mean \in {mean0}, P \in {P0}})

(* A _sample that draws from the global source whatever rng is. *)
_sample_GlobalOnly(o, N, rng, global) ==
    IF SqrtprecUsable(o) # "none"
    THEN [o |-> Raise(o, SqrtprecUsable(o)), e |-> NoArray, ret |-> NONE, global |-> global]
    ELSE The({The({IF p.exc # "none"
                   THEN [o |-> Raise(o, p.exc), e |-> d.e, ret |-> NONE, global |-> d.source]
                   ELSE [o |-> o, e |-> d.e, ret |-> Val(AddMean(o._mean.v, p.x)),
                         global |-> d.source] :
                   p \in {IF o._sqrtprec.v.sparse THEN spsolve(o._sqrtprec.v.x, d.e)
                          ELSE IF IsLower(o._sqrtprec.v.x)
                          THEN solve_triangular(o._sqrtprec.v.x, d.e)
                          ELSE solve(o._sqrtprec.v.x, d.e)}}) :
              d \in {randn(global, Rows(o._sqrtprec.v.x), N)}})

(* e = rng.randn(k, N), or np.random.randn(k, N) when rng is None, with k  *)
(* the row count of sqrtprec; s = mean[:, None] + the solution p of        *)
(* sqrtprec @ p = e.  global is the global source before and after.        *)
_sample(o, N, rng, global) ==
    IF SqrtprecUsable(o) # "none"
    THEN [o |-> Raise(o, SqrtprecUsable(o)), e |-> NoArray, ret |-> NONE, global |-> global]
    ELSE The({The({IF p.exc # "none"
                   THEN [o |-> Raise(o, p.exc), e |-> d.e, ret |-> NONE,
                         global |-> IF rng = NONE THEN d.source ELSE global]
                   ELSE [o |-> o, e |-> d.e, ret |-> Val(AddMean(o._mean.v, p.x)),
                         global |-> IF rng = NONE THEN d.source ELSE global] :
                   p \in {IF o._sqrtprec.v.sparse THEN spsolve(o._sqrtprec.v.x, d.e)
                          ELSE IF IsLower(o._sqrtprec.v.x)
                          THEN solve_triangular(o._sqrtprec.v.x, d.e)
                          ELSE solve(o._sqrtprec.v.x, d.e)}}) :
              d \in {randn(IF rng = NONE THEN global ELSE rng.v, Rows(o._sqrtprec.v.x), N)}})

NoGaussCall ==
    [e |-> NoArray, value |-> NONE, ret |-> NONE, prec |-> NONE,
     sqrtprec |-> NONE, cov |-> NONE, sqrtcov |-> NONE, N |-> 0, rng |-> NONE,
     global |-> Unseeded, op |-> "none", field |-> "none", before |-> NoGaussian, prev |-> NONE]

(* A Gaussian is built when none is held: the first, or the next after a   *)
(* constructor that raised.                                                *)
GaussianConstruct(big, chols, cov, prec, sqrtcov, sqrtprec) ==
    /\ ~g.exists \/ (glast.op = "construct" /\ g.exc # "none")
    /\ g' = Gaussian_init(NewGaussian(big, chols), cov, prec, sqrtcov, sqrtprec)
    /\ glast' = [NoGaussCall EXCEPT !.op = "construct", !.cov = cov, !.prec = prec,
                                    !.sqrtcov = sqrtcov, !.sqrtprec = sqrtprec]
    /\ UNCHANGED <<sampVars, nprandom>>

(* An assignment to a covariance-like property of the Gaussian a           *)
(* constructor returned.                                                   *)
Constructed == g.exists /\ ~(glast.op = "construct" /\ g.exc # "none")

GaussianSet(name, value) ==
    /\ Constructed
    /\ g' = Gaussian_fset([g EXCEPT !.exc = "none"], name, value)
    /\ glast' = [NoGaussCall EXCEPT !.op = "set", !.field = name, !.value = value,
                                    !.before = g]
    /\ UNCHANGED <<sampVars, nprandom>>

(* Gaussian(mean, rep=value) of one representation, in an environment      *)
(* whose eigensolver signs its eigenvectors by esign.                      *)
GaussianBuild(big, chols, esign, rep, value) ==
    /\ ~g.exists \/ (glast.op = "construct" /\ g.exc # "none")
    /\ g' = Gaussian_init([NewGaussian(big, chols) EXCEPT !.esign = esign],
                          IF rep = "cov" THEN value ELSE NONE,
                          IF rep = "prec" THEN value ELSE NONE,
                          IF rep = "sqrtcov" THEN value ELSE NONE,
                          IF rep = "sqrtprec" THEN value ELSE NONE)
    /\ glast' = [NoGaussCall EXCEPT !.op = "construct", ![rep] = value]
    /\ UNCHANGED <<sampVars, nprandom>>

(* rng: None for the global source, or a source the caller has seeded. *)
RngArgs == {NONE} \cup {Val(RandomState(seed)) : seed \in Seeds}

(* The point every density is evaluated at. *)
XArg == Arr1(<<QInt(3), QInt(5)>>)

GaussianLogpdf ==
    /\ Constructed
    /\ \E r \in {logpdf([g EXCEPT !.exc = "none"], XArg)} :
       /\ g' = r.o
       /\ glast' = [NoGaussCall EXCEPT !.op = "logpdf", !.before = g, !.ret = r.ret]
    /\ UNCHANGED <<sampVars, nprandom>>

GaussianLogupdf ==
    /\ Constructed
    /\ \E r \in {_logupdf([g EXCEPT !.exc = "none"], XArg)} :
       /\ g' = r.o
       /\ glast' = [NoGaussCall EXCEPT !.op = "_logupdf", !.before = g, !.ret = r.ret]
    /\ UNCHANGED <<sampVars, nprandom>>

GaussianGradient ==
    /\ Constructed
    /\ \E r \in {gradient([g EXCEPT !.exc = "none"], XArg)} :
       /\ g' = r.o
       /\ glast' = [NoGaussCall EXCEPT !.op = "gradient", !.before = g, !.ret = r.ret]
    /\ UNCHANGED <<sampVars, nprandom>>

(* np.random.seed(seed) *)
Seed(seed) ==
    /\ nprandom' = RandomState(seed)
    /\ UNCHANGED <<sampVars, g, glast>>

(* The call before this one, when it was a _sample on the same Gaussian. *)
PreviousSample ==
    IF glast.op = "_sample" /\ g.exc = "none" THEN Val([glast EXCEPT !.prev = NONE, !.before = NoGaussian])
    ELSE NONE

GaussianSample(N, rng) ==
    /\ Constructed
    /\ \E r \in {_sample([g EXCEPT !.exc = "none"], N, rng, nprandom)} :
       /\ r.global.pos <= MaxDrawn
       /\ g' = r.o
       /\ nprandom' = r.global
       /\ glast' = [NoGaussCall EXCEPT !.op = "_sample", !.before = g, !.ret = r.ret,
                                       !.N = N, !.rng = rng, !.global = nprandom, !.e = r.e,
                                       !.prev = PreviousSample]
    /\ UNCHANGED sampVars

----------------
(* The calls a client makes.  A call is made on the object of the last     *)
(* constructor call.  The object exists from the moment __init__ starts;   *)
(* live tells whether __init__ returned it to the caller.                  *)

NoCall ==
    [k |-> 0, target |-> NONE, writes |-> <<>>, tunes |-> <<>>, interval |-> 0, ret |-> NONE,
     N |-> 0, op |-> "none", before |-> 0, freq |-> <<0, 1>>, arg |-> NONE,
     same |-> TRUE, wasInit |-> FALSE]

HistLen(o) == IF IsVal(o._samples) THEN Len(o._samples.v) ELSE 0
Initialized(o) == o._is_initialized = Val(TRUE)
Clear(o) == [o EXCEPT !.exc = "none"]
Same(o1, o2) == [o1 EXCEPT !.exc = "none"] = [o2 EXCEPT !.exc = "none"]
Exists == s.kind # "none"

InitialPointArgs == {MISSING, Val(<<7>>)}
CallbackArgs == {NONE, Val("cb")}
Freqs == {<<1, 10>>, <<1, 2>>, <<1, 1>>, <<3, 2>>}

Call(op, o) == [NoCall EXCEPT !.op = op, !.before = HistLen(s), !.wasInit = Initialized(s),
                              !.same = Same(s, o)]

Construct(kind, target, ip, cb) ==
    /\ ~live
    /\ \E o \in {Constructor(kind, target, ip, cb)} :
       /\ s' = o
       /\ live' = (o.exc = "none")
       /\ last' = [NoCall EXCEPT !.op = "construct", !.target = target, !.same = FALSE]
    /\ cbLog' = <<>>
    /\ UNCHANGED <<files, ckpt, handler, gaussVars>>

SetTarget(value) ==
    /\ Exists
    /\ \E o \in {target_fset(Clear(s), value)} :
       /\ s' = o
       /\ last' = [Call("set_target", o) EXCEPT !.target = value]
    /\ UNCHANGED <<live, files, cbLog, ckpt, handler, gaussVars>>

(* self._precompute(), called on the object directly *)
Precompute ==
    /\ Exists /\ IsRTO(s)
    /\ \E o \in {_precompute(Clear(s))} :
       /\ s' = o
       /\ last' = Call("_precompute", o)
    /\ UNCHANGED <<live, files, cbLog, ckpt, handler, gaussVars>>

(* A call M(x, flag) of the closure, as the least-squares solver makes it: *)
(* flag 1 on an x of n entries, flag 2 on an x of len(b_tild) entries.     *)
ApplyM(flag) ==
    /\ Exists /\ IsRTO(s) /\ IsVal(s.M) /\ s.M.v.form = "closure" /\ IsVal(s.b_tild)
    /\ last' = [Call("M", s) EXCEPT
                   !.arg = Val(flag),
                   !.ret = Val(M_closure(s.M.v.of, IF flag = 1 THEN s.n.v ELSE s.b_tild.v.len,
                                         flag))]
    /\ UNCHANGED <<s, live, files, cbLog, ckpt, handler, gaussVars>>

(* _BatchHandler(batch_size, path) on the directory as it is; a negative   *)
(* batch_size raises ValueError and leaves no object.                      *)
BatchHandlerNew(batch_size) ==
    /\ ~IsVal(handler)
    /\ handler' = IF batch_size < 0 THEN NONE
                  ELSE Val(_BatchHandler_init(batch_size, files))
    /\ last' = [NoCall EXCEPT !.op = "_BatchHandler", !.k = batch_size]
    /\ UNCHANGED <<s, live, files, cbLog, ckpt, gaussVars>>

(* A method of the handler on the directory as it is: what it leaves in    *)
(* the object and in the directory, and the writes it made.                *)
HandlerCall(op, F(_)) ==
    /\ IsVal(handler) /\ handler.v.num_batches_dumped \in BatchIds
    /\ \E h \in {F([handler.v EXCEPT !.dir = files])} :
       /\ handler' = Val(h)
       /\ files' = h.dir
       /\ last' = [NoCall EXCEPT !.op = op, !.k = h._batch_size,
                                 !.before = Len(handler.v.current_batch),
                                 !.writes = SubSeq(h.writes, Len(handler.v.writes) + 1,
                                                   Len(h.writes))]
    /\ UNCHANGED <<s, live, cbLog, ckpt, gaussVars>>

AddSample(point) == HandlerCall("add_sample", LAMBDA h : add_sample(h, point))
Flush == HandlerCall("flush", flush)
Finalize == HandlerCall("finalize", finalize)

Initialize ==
    /\ Exists
    /\ \E o \in {initialize(Clear(s))} :
       /\ s' = o
       /\ last' = Call("initialize", o)
    /\ UNCHANGED <<live, files, cbLog, ckpt, handler, gaussVars>>

Reset ==
    /\ Exists
    /\ \E o \in {reset(Clear(s))} :
       /\ s' = o
       /\ last' = Call("reset", o)
    /\ UNCHANGED <<live, files, cbLog, ckpt, handler, gaussVars>>

GetSamples ==
    /\ Exists
    /\ \E r \in {get_samples(Clear(s))} :
       /\ s' = r.o
       /\ last' = [Call("get_samples", r.o) EXCEPT !.ret = r.ret]
    /\ UNCHANGED <<live, files, cbLog, ckpt, handler, gaussVars>>

Sample(Ns, batch_size, outs) ==
    /\ Exists
    /\ HistLen(s) + Ns <= MaxHist /\ s.nsteps + Ns <= MaxHist
    /\ \E st \in {sample(Clear(s), Ns, batch_size, outs, files, cbLog)} :
       /\ s' = st.o
       /\ files' = st.h.dir
       /\ cbLog' = st.cb
       /\ last' = [Call("sample", st.o) EXCEPT !.N = Ns, !.k = batch_size,
                                               !.writes = st.h.writes,
                                               !.tunes = st.tunes]
    /\ UNCHANGED <<live, ckpt, handler, gaussVars>>

Warmup(Nb, tune_freq, outs) ==
    /\ Exists
    /\ HistLen(s) + Nb <= MaxHist /\ s.nsteps + Nb <= MaxHist
    /\ \E st \in {warmup(Clear(s), Nb, tune_freq, outs, files, cbLog)} :
       /\ s' = st.o
       /\ cbLog' = st.cb
       /\ last' = [Call("warmup", st.o) EXCEPT !.N = Nb, !.freq = tune_freq,
                                               !.interval = tune_interval(Nb, tune_freq),
                                               !.tunes = st.tunes]
    /\ UNCHANGED <<live, files, ckpt, handler, gaussVars>>

GetState ==
    /\ Exists
    /\ \E r \in {get_state(Clear(s))} :
       /\ s' = r.o
       /\ last' = [Call("get_state", r.o) EXCEPT !.ret = r.ret]
    /\ UNCHANGED <<live, files, cbLog, ckpt, handler, gaussVars>>

(* The records a client may hand to set_state. *)
TypeTags == {"ProposalBased", "LinearRTONew", "RegularizedLinearRTONew", "LinearRTO"}
StateDicts ==
    {<<[v |-> Val(<<5>>), k |-> "current_point"]>>,
     <<[v |-> Val(<<5>>), k |-> "current_point"],
       [v |-> Val(logd(TPost1, <<5>>)), k |-> "current_target_logd"],
       [v |-> Val(2), k |-> "scale"]>>,
     <<[v |-> Val(<<5>>), k |-> "current_point"], [v |-> Val(0), k |-> "step"]>>}
StateRecords ==
    {[metadata |-> [sampler_type |-> n], state |-> d] : n \in TypeTags, d \in StateDicts}
        \cup {[sampler_type |-> "LinearRTO"]}

SetState(state) ==
    /\ Exists
    /\ \E o \in {set_state(Clear(s), state)} :
       /\ s' = o
       /\ last' = [Call("set_state", o) EXCEPT !.arg = Val(state)]
    /\ UNCHANGED <<live, files, cbLog, ckpt, handler, gaussVars>>

SaveCheckpoint ==
    /\ Exists
    /\ \E r \in {save_checkpoint(Clear(s), ckpt)} :
       /\ s' = r.o
       /\ ckpt' = r.file
       /\ last' = Call("save_checkpoint", r.o)
    /\ UNCHANGED <<live, files, cbLog, handler, gaussVars>>

LoadCheckpoint ==
    /\ Exists
    /\ \E o \in {load_checkpoint(Clear(s), ckpt)} :
       /\ s' = o
       /\ last' = [Call("load_checkpoint", o) EXCEPT !.arg = ckpt]
    /\ UNCHANGED <<live, files, cbLog, ckpt, handler, gaussVars>>

Init ==
    /\ s = NoObject
    /\ live = FALSE
    /\ last = NoCall
    /\ files = NoFiles
    /\ cbLog = <<>>
    /\ ckpt = NONE
    /\ handler = NONE
    /\ g = NoGaussian
    /\ glast = NoGaussCall
    /\ nprandom = Unseeded

(* One flag per call: every draw of the call is accepted, or every draw is *)
(* rejected.                                                               *)
Outcomes(N) == {[i \in 1..N |-> a] : a \in StepOutcomes(s)}

(* The lifecycle: construction, target assignment, initialization, reset,  *)
(* and sampling without batches.                                           *)
Next ==
    \/ \E kind \in SamplerKinds, target \in TargetArgs, ip \in InitialPointArgs,
          cb \in CallbackArgs : Construct(kind, target, ip, cb)
    \/ \E value \in NewTargetArgs : SetTarget(value)
    \/ Initialize
    \/ Reset
    \/ \E Ns \in 0..MaxNs : \E outs \in Outcomes(Ns) : Sample(Ns, 0, outs)
    \/ \E Nb \in 0..MaxNs : \E outs \in Outcomes(Nb) : Warmup(Nb, <<1, 10>>, outs)

Spec == Init /\ [][Next]_vars

(* Warmup and its tuning schedule. *)
WarmupNext ==
    \/ \E kind \in SamplerKinds, target \in {NONE, Val(TPost1)}, cb \in CallbackArgs :
          Construct(kind, target, MISSING, cb)
    \/ \E value \in {Val(TPost1), Val(TPost2)} : SetTarget(value)
    \/ \E Ns \in 0..MaxNs : \E outs \in Outcomes(Ns) : Sample(Ns, 0, outs)
    \/ \E Nb \in 0..MaxNs, tune_freq \in Freqs :
          \E outs \in Outcomes(Nb) : Warmup(Nb, tune_freq, outs)

WarmupSpec == Init /\ [][WarmupNext]_vars

(* Sampling with batches written to the batch directory. *)
BatchNext ==
    \/ \E kind \in SamplerKinds, target \in {NONE, Val(TPost1)} :
          Construct(kind, target, MISSING, NONE)
    \/ \E value \in {Val(TPost1), Val(TPost2)} : SetTarget(value)
    \/ \E Ns \in 0..MaxNs, batch_size \in 0..MaxBatch :
          \E outs \in Outcomes(Ns) : Sample(Ns, batch_size, outs)

BatchSpec == Init /\ [][BatchNext]_vars

(* The batch handler by itself. *)
HandlerSamples == {<<1>>, <<2>>}

HandlerNext ==
    \/ \E batch_size \in -1..MaxBatch : BatchHandlerNew(batch_size)
    \/ \E point \in HandlerSamples : AddSample(point)
    \/ Flush
    \/ Finalize

HandlerSpec == Init /\ [][HandlerNext]_vars

(* Checkpoints. *)
CkptNext ==
    \/ \E kind \in SamplerKinds, target \in {NONE, Val(TPost1)} :
          Construct(kind, target, MISSING, NONE)
    \/ \E value \in {Val(TPost1)} : SetTarget(value)
    \/ \E Ns \in 1..MaxNs : \E outs \in Outcomes(Ns) : Sample(Ns, 0, outs)
    \/ GetState
    \/ \E state \in StateRecords : SetState(state)
    \/ SaveCheckpoint
    \/ LoadCheckpoint

CkptSpec == Init /\ [][CkptNext]_vars

(* The operator stack of the RTO samplers. *)
StackNext ==
    \/ \E kind \in RTOKinds, target \in StackTargetArgs, ip \in InitialPointArgs :
          Construct(kind, target, ip, NONE)
    \/ Precompute
    \/ \E flag \in {1, 2} : ApplyM(flag)
    \/ Reset
    \/ \E outs \in Outcomes(1) : Sample(1, 0, outs)

StackSpec == Init /\ [][StackNext]_vars

(* The sample history: steps taken by sample and warmup, and its matrix. *)
HistoryNext ==
    \/ \E kind \in SamplerKinds, target \in {NONE, Val(TPost1), Val(TPost2)},
          ip \in InitialPointArgs : Construct(kind, target, ip, NONE)
    \/ \E value \in {Val(TPost1), Val(TPost2)} : SetTarget(value)
    \/ Reset
    \/ \E Ns \in 0..MaxNs : \E outs \in Outcomes(Ns) : Sample(Ns, 0, outs)
    \/ \E Nb \in 0..MaxNs : \E outs \in Outcomes(Nb) : Warmup(Nb, <<1, 2>>, outs)
    \/ GetSamples

HistorySpec == Init /\ [][HistoryNext]_vars

(* The factorizations: a Gaussian built from every class of argument in    *)
(* every environment.                                                      *)
FactorNext ==
    \E big \in BOOLEAN, chols \in BOOLEAN, esign \in ESigns :
        \E rep \in CovLike : \E name \in ValueNames(rep) \ {"callable"} :
            GaussianBuild(big, chols, esign, rep, Val(Value(rep, name)))

FactorSpec == Init /\ [][FactorNext]_vars

(* The Gaussian: construction and assignment to its properties. *)
GaussNext ==
    \/ \E big \in BOOLEAN, chols \in BOOLEAN,
          cov \in GaussInitValues("cov"), prec \in GaussInitValues("prec"),
          sqrtcov \in GaussInitValues("sqrtcov"), sqrtprec \in GaussInitValues("sqrtprec") :
          GaussianConstruct(big, chols, ValueArg("cov", cov), ValueArg("prec", prec),
                            ValueArg("sqrtcov", sqrtcov), ValueArg("sqrtprec", sqrtprec))
    \/ \E name \in CovLike : \E value \in GaussValues(name) :
          GaussianSet(name, ValueArg(name, value))
    \/ GaussianLogpdf

GaussSpec == Init /\ [][GaussNext]_vars

(* The Gaussian of one representation: its densities, gradient and         *)
(* samples.                                                                *)
DensityNames == {"scalar", "vector", "diag", "sdiag", "full", "sparse"}

DensityNext ==
    \/ \E big \in BOOLEAN, chols \in BOOLEAN, esign \in ESigns :
          \E rep \in CovLike : \E name \in DensityNames :
             GaussianBuild(big, chols, esign, rep, ValueArg(rep, name))
    \/ GaussianLogpdf
    \/ GaussianLogupdf
    \/ GaussianGradient
    \/ \E N \in 1..MaxDraws, rng \in RngArgs \ {NONE} : GaussianSample(N, rng)

DensitySpec == Init /\ [][DensityNext]_vars

(* Sampling from the Gaussian of one representation: a diagonal, a dense   *)
(* and a sparse factor, the global source and sources the caller seeds.    *)
DrawNames == {"scalar", "full", "sparse"}

DrawNext ==
    \/ \E big \in BOOLEAN, chols \in BOOLEAN :
          \E rep \in CovLike : \E name \in DrawNames :
             GaussianBuild(big, chols, <<1, 1>>, rep, ValueArg(rep, name))
    \/ \E seed \in Seeds : Seed(seed)
    \/ \E N \in 1..MaxDraws, rng \in RngArgs : GaussianSample(N, rng)

DrawSpec == Init /\ [][DrawNext]_vars

----------------------------------------------------------------------------
(* Properties of sample, warmup and the sampler's lifecycle.               *)

(* A target the class of the object takes: it passes validate_target, an   *)
(* RTO sampler can stack its operators, and a regularized one finds a      *)
(* callable proximal.                                                      *)
ValidTarget(kind, t) ==
    /\ validate_target([NewObject(kind) EXCEPT !._target = Val(t)]).exc = "none"
    /\ kind = "RegularizedLinearRTONew" => t.prox = "callable"

Ceil(a, b) == (a + b - 1) \div b

RECURSIVE Concat(_)
Concat(ws) == IF ws = <<>> THEN <<>> ELSE ws[1].samples \o Concat(Tail(ws))

(* The points of the history from position a + 1 on, as arrays. *)
Appended(o, a) == [i \in 1..(Len(o._samples.v) - a) |-> o._samples.v[a + i]]

(* C1: sample(N, batch_size = k) with k > 0 on an initialized sampler      *)
(* returns with ceil(N / k) batch files written, whose sample arrays       *)
(* concatenated in batch-index order are the N points the call appended to *)
(* the in-memory history.                                                  *)
C1_BatchFilesCoverCall ==
    (last.op = "sample" /\ last.k > 0 /\ last.wasInit /\ s.exc = "none")
        => /\ Len(last.writes) = Ceil(last.N, last.k)
           /\ \A i \in 1..Len(last.writes) : last.writes[i].id = i - 1
           /\ Concat(last.writes) = Appended(s, last.before)

(* C2: assigning a new non-None target to an initialized sampler does not  *)
(* raise and re-initializes it: current_point is the default initial       *)
(* point, the sample history is empty, and an RTO sampler's M and b_tild   *)
(* are those of the new target.                                            *)
C2_TargetReplacementReinitializes ==
    (last.op = "set_target" /\ last.wasInit /\ IsVal(last.target)
        /\ ValidTarget(s.kind, last.target.v))
        => /\ s.exc = "none"
           /\ s.current_point = Val(Ones(last.target.v.dim))
           /\ s._samples = Val(<<>>)
           /\ IsRTO(s) => /\ IsVal(s.M) /\ s.M.v.of = last.target.v
                          /\ s.b_tild = Val([of |-> last.target.v,
                                             len |-> b_tild_len(last.target.v)])

(* C3: constructing a sampler with a valid non-None target completes       *)
(* without error and leaves it Initialized: _is_initialized is true,       *)
(* current_point is a point of length dim, and every state and history key *)
(* is set.                                                                 *)
C3_ConstructionInitializes ==
    (last.op = "construct" /\ IsVal(last.target) /\ ValidTarget(s.kind, last.target.v))
        => /\ s.exc = "none"
           /\ Initialized(s)
           /\ IsVal(s.current_point)
           /\ Len(s.current_point.v) = last.target.v.dim
           /\ \A k \in _STATE_KEYS(s) \cup _HISTORY_KEYS(s) : IsVal(s[k])

(* The record get_state returns for a sampler of the class: the metadata    *)
(* names the class and the state has one entry per key of _STATE_KEYS.     *)
IsStateRecord(o, r) ==
    /\ DOMAIN r = {"metadata", "state"}
    /\ r.metadata.sampler_type = ClassName(o)
    /\ {r.state[i].k : i \in 1..Len(r.state)} = _STATE_KEYS(o)
    /\ Len(r.state) = Cardinality(_STATE_KEYS(o))

(* C6: set_state or load_checkpoint with a record whose metadata           *)
(* sampler_type is not the sampler's class name raises the type-mismatch   *)
(* ValueError and leaves the sampler as it was, for every sampler class.   *)
C6_TypeMismatchRejected ==
    (last.op \in {"set_state", "load_checkpoint"} /\ IsVal(last.arg)
        /\ "metadata" \in DOMAIN last.arg.v
        /\ last.arg.v.metadata.sampler_type # ClassName(s))
        => s.exc = "ValueError:type" /\ last.same

(* C7: get_state returns {metadata: {sampler_type}, state: {one entry per  *)
(* key of _STATE_KEYS}} for every sampler class, and set_state or          *)
(* load_checkpoint with such a record of the same class makes every state  *)
(* key equal to its recorded value.                                        *)
C7_StateRecordRoundTrip ==
    /\ (last.op = "get_state" /\ s.exc = "none")
          => IsVal(last.ret) /\ IsStateRecord(s, last.ret.v)
    /\ (last.op \in {"set_state", "load_checkpoint"} /\ IsVal(last.arg)
          /\ IsStateRecord(s, last.arg.v))
          => /\ s.exc = "none"
             /\ \A i \in 1..Len(last.arg.v.state) :
                   s[last.arg.v.state[i].k] = last.arg.v.state[i].v

C9_TuneAtCeilMultiples ==
    /\ last.op = "sample" => last.tunes = <<>>
    /\ (last.op = "warmup" /\ s.exc = "none" /\ last.N > 0)
          => {last.tunes[i].after : i \in 1..Len(last.tunes)}
                = {j \in 1..last.N : j % Ceil(last.freq[1] * last.N, last.freq[2]) = 0}

(* C9, as the code has it: tune is called by warmup only, after exactly    *)
(* the steps whose 1-based index is a multiple of                          *)
(* max(floor(tune_freq * N), 1), in increasing order, once each, with that *)
(* interval as skip_len and the count of earlier tunings as update_count.  *)
C9_TuneAtFloorMultiples ==
    /\ last.op = "sample" => last.tunes = <<>>
    /\ (last.op = "warmup" /\ s.exc = "none")
          => LET f == (last.freq[1] * last.N) \div last.freq[2]
                 m == IF f >= 1 THEN f ELSE 1
             IN  /\ Len(last.tunes) = Cardinality({j \in 1..last.N : j % m = 0})
                 /\ \A i \in 1..Len(last.tunes) :
                       /\ last.tunes[i].after = i * m
                       /\ last.tunes[i].skip_len = m
                       /\ last.tunes[i].update_count = i - 1

(* A warmup of an initialized sampler whose tune_freq * N is not whole     *)
(* (1.5): it tuned after every one of its three steps.                     *)
C9_Witness ==
    /\ last.op = "warmup" /\ s.exc = "none" /\ Initialized(s)
    /\ last.N = 3 /\ last.freq = <<1, 2>> /\ Len(last.tunes) = 3
    /\ last.tunes[2].after = 2

(* C10: an RTO sampler's acceptance history holds one marker per step      *)
(* taken since construction, and every marker is 1.                        *)
C10_OneMarkerPerStep ==
    (IsRTO(s) /\ IsVal(s._target) /\ ValidTarget(s.kind, s._target.v))
        => /\ IsVal(s._acc)
           /\ Len(s._acc.v) = s.nsteps
           /\ \A i \in 1..Len(s._acc.v) : s._acc.v[i] = 1

----------------------------------------------------------------------------
(* Properties of the Gaussian's parameterization.                          *)

(* The covariance-like names in _mutable_vars. *)
MutableFields(o) ==
    IF IsVal(o._mutable_vars)
    THEN {d \in CovLike : \E i \in 1..Len(o._mutable_vars.v) : o._mutable_vars.v[i] = d}
    ELSE {}

CovFields(o) == <<o._cov, o._prec, o._sqrtcov, o._sqrtprec, o._logdet, o._rank>>

(* C4: a constructed Gaussian has exactly one mutable covariance-like      *)
(* field and an assignment never changes which; assigning one of the other *)
(* three fails on the mutability check and changes no field; assigning the *)
(* designated one is never rejected by the mutability check.               *)
C4_OneMutableField ==
    Constructed
        => /\ Cardinality(MutableFields(g)) = 1
           /\ glast.op = "set"
                => /\ g._mutable_vars = glast.before._mutable_vars
                   /\ glast.field \notin MutableFields(glast.before)
                         => /\ g.exc = "ValueError:mutable"
                            /\ [g EXCEPT !.exc = "none"]
                                  = [glast.before EXCEPT !.exc = "none"]
                   /\ glast.field \in MutableFields(glast.before)
                         => g.exc # "ValueError:mutable"

(* A Gaussian designated by cov whose covariance was assigned and          *)
(* factorized, and then an assignment to prec that was rejected.           *)
C4_Witness ==
    /\ Constructed /\ glast.op = "set" /\ glast.field = "prec"
    /\ glast.value = Val(Value("prec", "full"))
    /\ g._mutable_vars = Val(<<"mean", "cov">>)
    /\ g.exc = "ValueError:mutable"
    /\ g._cov = Val(Value("cov", "diag")) /\ IsVal(g._sqrtprec)

(* C5: the constructor given two or more of cov, prec, sqrtcov, sqrtprec   *)
(* raises before any covariance-like field is set; given exactly one, that *)
(* one is the designated mutable field; given none, cov is.                *)
C5_AtMostOneRepresentation ==
    glast.op = "construct"
        => LET given == {d \in CovLike : glast[d] # NONE} IN
           /\ Cardinality(given) >= 2
                 => /\ g.exc = "ValueError:exactly_one"
                    /\ \A i \in 1..6 : CovFields(g)[i] = MISSING
                    /\ MutableFields(g) = {}
           /\ Cardinality(given) = 1
                 => /\ g.exc # "ValueError:exactly_one"
                    /\ MutableFields(g) = given
           /\ given = {}
                 => /\ g.exc = "none"
                    /\ MutableFields(g) = {"cov"}

(* A constructor call given both prec and sqrtcov. *)
C5_Witness ==
    /\ glast.op = "construct" /\ glast.cov = NONE /\ glast.prec = Val(Value("prec", "scalar"))
    /\ glast.sqrtcov = Val(Value("sqrtcov", "scalar")) /\ glast.sqrtprec = NONE
    /\ g.exc = "ValueError:exactly_one"

----------------------------------------------------------------------------
(* Properties of the operator stack.                                       *)

RECURSIVE SumSeq(_)
SumSeq(q) == IF q = <<>> THEN 0 ELSE Head(q) + SumSeq(Tail(q))

Square(t) == t.L2.rows = t.L2.cols /\ \A i \in DOMAIN t.L1 : t.L1[i].rows = t.L1[i].cols

(* The rows of every factor of the stack, counted factor by factor. *)
StackRows(t) ==
    LET rows == [i \in 1..(Len(t.L1) + 1) |->
                    IF i <= Len(t.L1) THEN t.L1[i].rows ELSE t.L2.rows]
    IN  SumSeq(rows)

(* _precompute was called on an RTO sampler holding a target that passes   *)
(* validate_target, and returned.                                          *)
Precomputed ==
    /\ last.op = "_precompute" /\ s.exc = "none" /\ IsRTO(s)
    /\ IsVal(s._target) /\ ValidTarget(s.kind, s._target.v)

C12_MatrixModelsGiveMatrix ==
    (Precomputed /\ \A i \in DOMAIN s._target.v.models : s._target.v.models[i] = "matrix")
        => /\ IsVal(s.M) /\ s.M.v.form = "matrix"

(* C13: when the likelihood models are a mix of matrix-backed and          *)
(* function-backed LinearModels, _precompute raises TypeError and installs *)
(* no M of that target.                                                    *)
C13_MixedModelsRejected ==
    (/\ last.op = "_precompute" /\ IsRTO(s) /\ IsVal(s._target)
     /\ ValidTarget(s.kind, s._target.v)
     /\ \E i, j \in DOMAIN s._target.v.models :
           s._target.v.models[i] = "matrix" /\ s._target.v.models[j] = "function")
        => /\ s.exc = "TypeError:mixed"
           /\ ~IsVal(s.M) \/ s.M.v.of # s._target.v

(* The closure of the target t was called with flag and returned or       *)
(* raised.                                                                 *)
MCalled(flag) == last.op = "M" /\ last.arg = Val(flag)
ForwardBlocks(t) == M_closure(t, t.dim, 1).blocks

C25_AdjointSplitsAsForwardOfSquare ==
    (MCalled(2) /\ \A i \in DOMAIN s.M.v.of.L1 : s.M.v.of.L1[i].rows = s.M.v.of.L1[i].cols)
        => /\ last.ret.v.exc = "none"
           /\ last.ret.v.blocks = ForwardBlocks(s.M.v.of)
           /\ last.ret.v.len = s.M.v.of.dim

----------------------------------------------------------------------------
(* Properties of the batch handler.                                        *)

(* The batch in memory is not full; the i-th file written has index i - 1  *)
(* and is in the directory as written.                                     *)
Batching == IsVal(handler) /\ handler.v._batch_size > 0
BatchBelowSize == Len(handler.v.current_batch) < handler.v._batch_size
IndexedInOrder ==
    /\ handler.v.num_batches_dumped = Len(handler.v.writes)
    /\ \A i \in 1..Len(handler.v.writes) :
          handler.v.writes[i].id = i - 1 /\ files[i - 1] = handler.v.writes[i].samples

(* A call of add_sample wrote full batches only; a flush or finalize on an *)
(* empty batch left the object and the directory as they were.             *)
FullFlushes ==
    last'.op = "add_sample"
        => \A i \in 1..Len(last'.writes) : Len(last'.writes[i].samples) = last'.k
EmptyFlushIdle ==
    (last'.op \in {"flush", "finalize"} /\ last'.before = 0)
        => last'.writes = <<>> /\ handler' = handler /\ files' = files

(* C26: for a handler of batch_size k > 0, the batch in memory holds less  *)
(* than k samples after every call, every file an add_sample writes holds  *)
(* exactly k samples, flush and finalize on an empty batch write nothing   *)
(* and keep the index, and the i-th file written has index i - 1.          *)
C26_BatchHandlerInvariants ==
    [][Batching' => /\ BatchBelowSize' /\ IndexedInOrder'
                    /\ FullFlushes /\ EmptyFlushIdle]_vars

(* A handler of batch_size 2 that has written the files 0 and 1, each of   *)
(* two samples, finalized with nothing left in memory.                     *)
C26_Witness ==
    /\ IsVal(handler) /\ handler.v._batch_size = 2
    /\ Len(handler.v.writes) = 2 /\ handler.v.writes[2].id = 1
    /\ Len(files[0]) = 2 /\ Len(files[1]) = 2 /\ files[0] # files[1]
    /\ last.op = "finalize" /\ last.before = 0 /\ last.writes = <<>>

----------------------------------------------------------------------------
(* Properties of the Gaussian's density.                                   *)

(* C14: logpdf raises NotImplementedError exactly when logdet is None; a   *)
(* logpdf call that raises changes no field; and while logdet is None the  *)
(* unnormalized log density and sampling still return values.              *)
C14_LogpdfNeedsLogdet ==
    /\ glast.op = "logpdf"
          => /\ g.exc = "NotImplementedError" <=> glast.before._logdet = NONE
             /\ g.exc # "none" => /\ [g EXCEPT !.exc = "none"]
                                        = [glast.before EXCEPT !.exc = "none"]
                                  /\ glast.ret = NONE
    /\ (glast.op \in {"_logupdf", "_sample"} /\ glast.before._logdet = NONE)
          => g.exc = "none" /\ IsVal(glast.ret)

(* The covariance was given as a sparse full matrix without the sparse     *)
(* Cholesky library, and logpdf was called.                                *)
C14_Witness ==
    /\ glast.op = "logpdf" /\ g.exc = "NotImplementedError"
    /\ g._logdet = NONE /\ g._cov = Val(Value("cov", "sparse")) /\ IsVal(g._sqrtprec)

(* The last call assigned a non-None, non-callable value to the           *)
(* designated property, through the property or through the constructor.   *)
AssignedField ==
    IF glast.op = "set" THEN glast.field
    ELSE CHOOSE d \in CovLike : glast[d] # NONE

AssignedValue == IF glast.op = "set" THEN glast.value ELSE glast[AssignedField]

Assigned ==
    /\ \/ glast.op = "set" /\ IsVal(glast.before._mutable_vars)
          /\ IsMutable(glast.before, glast.field)
       \/ glast.op = "construct" /\ Cardinality({d \in CovLike : glast[d] # NONE}) = 1
    /\ Factorizable(AssignedValue)

(* A full sparse matrix where the sparse Cholesky library is absent. *)
SparseFullNoCholesky ==
    /\ ~IsScalar(AssignedValue.v) /\ ~IsVector(AssignedValue.v) /\ ~IsDiag(AssignedValue.v)
    /\ AssignedValue.v.sparse /\ ~g.chols

(* C15: after a successful assignment of a non-None, non-callable value    *)
(* logdet is None exactly when the value is a full sparse matrix and the   *)
(* sparse Cholesky library is absent, and is a number on every other path; *)
(* that path does not raise for cov and prec.                              *)
C15_LogdetDefinedByPath ==
    Assigned
        => /\ g.exc = "none"
                 => /\ g._logdet = NONE <=> SparseFullNoCholesky
                    /\ IsVal(g._logdet) <=> ~SparseFullNoCholesky
           /\ (SparseFullNoCholesky /\ AssignedField \in {"cov", "prec"})
                 => g.exc = "none" /\ g._logdet = NONE

(* A full sparse precision assigned without the sparse Cholesky library. *)
C15_Witness ==
    /\ Assigned /\ glast.op = "set" /\ glast.field = "prec" /\ glast.value = Val(Value("prec", "sparse"))
    /\ ~g.chols /\ g.exc = "none" /\ g._logdet = NONE /\ IsVal(g._sqrtprec)

----------------------------------------------------------------------------
(* Properties of the Gaussian across its entry points.                     *)

(* The Gaussian a constructor call returned, given one representation. *)
Built == g.exists /\ g._mutable_vars.tag = "val" /\ IsVal(g._sqrtprec)
             /\ ~(glast.op = "construct" /\ g.exc # "none")

(* The representation it was given and the class and value of the argument. *)
InputRep == g._mutable_vars.v[2]
InputName == IF "of" \in DOMAIN g._sqrtprec.v THEN g._sqrtprec.v.of ELSE g._sqrtprec.v.name
Input == Value(InputRep, InputName)

(* The matrix a scalar, a vector of diagonal entries or a matrix stands for. *)
Dense(A) ==
    IF A.nd = 1 THEN Diag(A)
    ELSE IF Rows(A) = 1 THEN Scale(A.e[1][1], Identity(Dim))
    ELSE A

(* The precision the argument implies: C^-1 for cov = C, P for prec = P,   *)
(* (S S^T)^-1 for sqrtcov = S and R^T R for sqrtprec = R.                  *)
ImpliedPrecision(rep, m) ==
    IF rep = "cov" THEN Inv(Dense(m.x))
    ELSE IF rep = "prec" THEN Dense(m.x)
    ELSE IF rep = "sqrtcov" THEN Inv(MatMul(Dense(m.x), Transpose(Dense(m.x))))
    ELSE MatMul(Transpose(Dense(m.x)), Dense(m.x))

(* The one precision every form and entry point of a class describes. *)
UnderlyingPrecision(name) ==
    IF name \in {"full", "sparse"} THEN PrecFull ELSE Scale(Q(1, 4), Identity(Dim))

(* -0.5 * (x - mean)^T P (x - mean) *)
LogupOf(P) == QMul(Q(-1, 2), Dot(VecSub(XArg, MeanArg), MatVec(P, VecSub(XArg, MeanArg))))

(* The precision the stored factor represents. *)
Represented == MatMul(Transpose(g._sqrtprec.v.x), g._sqrtprec.v.x)

(* A sparse full matrix is factorized by the sparse Cholesky library. *)
ByBackend == InputName = "sparse" => g.chols

(* C16: every entry point and every form of one covariance gives the same  *)
(* logdet and rank and a factor of the same precision, so logpdf returns   *)
(* the same value for all of them.                                         *)
C16_EntryPointsAgree ==
    (Built /\ ByBackend /\ glast.op = "logpdf")
        => /\ ImpliedPrecision(InputRep, Input) = UnderlyingPrecision(InputName)
           /\ g.exc = "none"
           /\ g._rank = Val(Dim)
           /\ g._logdet = Val(Log(Det(Inv(UnderlyingPrecision(InputName)))))
           /\ Represented = UnderlyingPrecision(InputName)
           /\ glast.ret = Val([logdet |-> Log(Det(Inv(UnderlyingPrecision(InputName)))),
                               rank |-> Dim,
                               logup |-> LogupOf(UnderlyingPrecision(InputName))])

(* C17: for every entry point and every class of argument the stored       *)
(* factor satisfies sqrtprec.T @ sqrtprec = the precision the argument     *)
(* implies.                                                                *)
C17_FactorReconstructsPrecision ==
    (Built /\ glast.op = "construct")
        => Represented = ImpliedPrecision(InputRep, Input)

(* C18: for a Gaussian built through any entry point from a scalar, a      *)
(* vector or a matrix, gradient(x) returns -P (x - mean), P the dim-by-dim *)
(* precision of the distribution.                                          *)
C18_GradientIsMinusPrecTimesDev ==
    (Built /\ ByBackend /\ glast.op = "gradient")
        => /\ g.exc = "none"
           /\ glast.ret = Val(Scale(QInt(-1), MatVec(ImpliedPrecision(InputRep, Input),
                                                     VecSub(XArg, MeanArg))))

----------------------------------------------------------------------------
(* Properties of the Gaussian's samples.                                   *)

(* The source a _sample call drew from, in the state it was in. *)
SourceOf(call) == IF call.rng = NONE THEN call.global ELSE call.rng.v

----------------------------------------------------------------------------
(* Properties of the sample history.                                       *)

(* An initialized sampler whose history is a list of points of the         *)
(* target's dimension.                                                     *)
HasHistory(o) ==
    /\ Initialized(o) /\ IsVal(o._samples) /\ IsVal(o._target)
    /\ \A j \in 1..Len(o._samples.v) :
          IsVal(o._samples.v[j]) /\ Len(o._samples.v[j].v) = dim(o)

(* The dim-by-T matrix whose j-th column is the j-th point of the history. *)
ColumnsOf(o) ==
    Arr2([i \in 1..dim(o) |-> [j \in 1..Len(o._samples.v) |-> o._samples.v[j].v[i]]])

(* The history holds one point per step taken. *)
OnePointPerStep == HasHistory(s) => Len(s._samples.v) = s.nsteps

(* A sample or warmup call keeps the entries it found, appends the point   *)
(* each of its steps left, in step order, and ends at the current point;   *)
(* get_samples leaves the history as it is.                                *)
AppendOnly ==
    /\ (HasHistory(s) /\ last'.op \in {"sample", "warmup"})
          => /\ IsVal(s'._samples)
             /\ Len(s'._samples.v) = Len(s._samples.v) + (s'.nsteps - s.nsteps)
             /\ SubSeq(s'._samples.v, 1, Len(s._samples.v)) = s._samples.v
             /\ \A i \in (Len(s._samples.v) + 1)..Len(s'._samples.v) :
                   \/ s'._samples.v[i] = (IF i = 1 THEN s.current_point
                                            ELSE s'._samples.v[i - 1])
                   \/ \A j \in 1..(i - 1) : s'._samples.v[j] # s'._samples.v[i]
             /\ Len(s'._samples.v) > Len(s._samples.v)
                   => s'._samples.v[Len(s'._samples.v)] = s'.current_point
    /\ (HasHistory(s) /\ last'.op = "get_samples") => s'._samples = s._samples

(* get_samples returns the matrix of the history in a buffer of its own. *)
ReturnsColumns ==
    (HasHistory(s) /\ last.op = "get_samples")
        => /\ s.exc = "none" /\ IsVal(last.ret) /\ last.ret.v.owndata
           /\ last.ret.v.samples = ColumnsOf(s)

(* The same for a history that holds a point; of an empty history it       *)
(* returns the empty one-dimensional array.                                *)
ReturnsColumnsOrEmpty ==
    (HasHistory(s) /\ last.op = "get_samples")
        => /\ s.exc = "none" /\ IsVal(last.ret) /\ last.ret.v.owndata
           /\ last.ret.v.samples
                 = (IF Len(s._samples.v) = 0 THEN Arr1(<<>>) ELSE ColumnsOf(s))

(* C20, as stated: after T steps since initialization the history holds    *)
(* exactly T points in step order, later steps never modify or remove      *)
(* earlier entries, and get_samples() returns a copy that is the dim-by-T  *)
(* matrix of the stored points.                                            *)
C20_HistoryAndMatrix == [][AppendOnly /\ OnePointPerStep' /\ ReturnsColumns']_vars

(* C20, as the code has it: the same, with get_samples() returning the     *)
(* dim-by-T matrix for T >= 1 and an empty one-dimensional array for T = 0.*)
C20_HistoryAndMatrixFromOneStep ==
    [][AppendOnly /\ OnePointPerStep' /\ ReturnsColumnsOrEmpty']_vars

(* A warmup and a sample call have filled the history with points that     *)
(* differ, and get_samples has returned their matrix.                      *)
C20_Witness ==
    /\ HasHistory(s) /\ last.op = "get_samples" /\ s.exc = "none"
    /\ Len(s._samples.v) = MaxHist /\ s.nsteps = MaxHist
    /\ s._samples.v[1] # s._samples.v[MaxHist]
    /\ dim(s) = 2 /\ Rows(last.ret.v.samples) = 2 /\ Cols(last.ret.v.samples) = MaxHist

----------------------------------------------------------------------------
(* Properties of the callback.                                             *)

(* C21: when a callback is set, sample and warmup call it exactly once per *)
(* step, after the step's point is appended, with that point and its       *)
(* zero-based position in the history; over successive calls the indices   *)
(* are 0, 1, 2, ... without repeats.  Without a callback nothing is called.*)
C21_CallbackOncePerStep ==
    (Exists /\ Initialized(s) /\ IsVal(s._samples))
        => IF IsVal(s.callback)
           THEN /\ Len(cbLog) = Len(s._samples.v)
                /\ Len(cbLog) = s.nsteps
                /\ \A i \in 1..Len(cbLog) :
                      cbLog[i] = [sample |-> s._samples.v[i], index |-> i - 1]
           ELSE cbLog = <<>>

(* With a callback set, a sample call that followed earlier steps has     *)
(* filled the history with points that differ.                             *)
C21_Witness ==
    /\ Exists /\ Initialized(s) /\ IsVal(s._samples) /\ IsVal(s.callback)
    /\ last.op = "sample" /\ last.N > 0 /\ last.before > 0 /\ s.exc = "none"
    /\ Len(cbLog) = MaxHist
    /\ cbLog[1].sample # cbLog[MaxHist].sample

----------------------------------------------------------------------------
(* Properties of the factorizations.                                       *)

(* A constructor call given the one representation rep has returned or     *)
(* raised; its argument.                                                   *)
BuiltFrom(rep) == g.exists /\ glast.op = "construct" /\ glast[rep] # NONE
GivenAs(rep) == glast[rep].v

(* S * S^T in the form S has: a scalar squared, a vector of diagonal       *)
(* entries squared entry by entry, a matrix times its transpose.           *)
SquareOf(S) ==
    IF IsScalar(S) THEN [S EXCEPT !.x = Arr2(<<<<QSquare(ravel0(S.x))>>>>)]
    ELSE IF IsVector(S) THEN [S EXCEPT !.x = Map1(QSquare, S.x)]
    ELSE [S EXCEPT !.x = MatMul(S.x, Transpose(S.x))]

(* What fromCov returns for S * S^T in the environment of the Gaussian. *)
FromCovOfSquare == get_sqrtprec_from_cov(SquareOf(GivenAs("sqrtcov")), g.big, g.chols, g.esign)

(* The Gaussian holds what the factorization f returned: both raised, or   *)
(* both hold the same prec, sqrtprec, logdet and rank.                     *)
Holds(f) ==
    IF f.exc # "none" THEN g.exc # "none"
    ELSE /\ g.exc = "none"
         /\ g._prec.v.x = f.prec.v.x /\ g._prec.v.sparse = f.prec.v.sparse
         /\ g._sqrtprec.v.x = f.sqrtprec.v.x /\ g._sqrtprec.v.sparse = f.sqrtprec.v.sparse
         /\ g._logdet = f.logdet /\ g._rank = f.rank

(* The same, the factor sqrtprec having the opposite sign. *)
HoldsNegated(f) ==
    /\ f.exc = "none" /\ g.exc = "none"
    /\ g._prec.v.x = f.prec.v.x /\ g._prec.v.sparse = f.prec.v.sparse
    /\ g._sqrtprec.v.x = Scale(QInt(-1), f.sqrtprec.v.x)
    /\ g._sqrtprec.v.sparse = f.sqrtprec.v.sparse
    /\ g._logdet = f.logdet /\ g._rank = f.rank

ByEigh(rep) ==
    /\ BuiltFrom(rep) /\ g.exc = "none" /\ IsVal(g._sqrtprec)
    /\ g._sqrtprec.v.how = "eigh"

(* The factor the same call returns when the eigensolver signs its         *)
(* eigenvectors by esign.                                                  *)
SqrtprecUnder(rep, esign) ==
    Factorization(rep, GivenAs(rep), g.big, g.chols, esign).sqrtprec.v.x

(* C23: on the dense eigendecomposition path of fromCov, fromPrec and      *)
(* fromSqrtCov the returned sqrtprec is the sign-corrected factor: it is   *)
(* the same whichever sign the eigensolver gives each eigenvector.         *)
C23_EigenFactorSignFixed ==
    \A rep \in {"cov", "prec", "sqrtcov"} :
        ByEigh(rep) => \A esign \in ESigns : SqrtprecUnder(rep, esign) = g._sqrtprec.v.x

(* The branch the factorization of the argument given as rep took: the    *)
(* branch recorded with the factor; a factor that is the argument itself   *)
(* and a call that raised come from the diagonal and full branches.        *)
TakenClass(rep) ==
    IF g.exc = "none" /\ IsVal(g._sqrtprec) /\ "how" \in DOMAIN g._sqrtprec.v
       /\ g._sqrtprec.v.how \in {"scalar", "vector"}
    THEN g._sqrtprec.v.how
    ELSE "other"

(* The class by shape alone: scalar is 1-by-1, vector is flat with Dim     *)
(* entries.                                                                *)
ShapeClass(A) ==
    IF A.x.nd = 2 /\ Rows(A.x) = 1 /\ Cols(A.x) = 1 THEN "scalar"
    ELSE IF A.x.nd = 1 /\ ~A.sparse /\ Size(A.x) = Dim THEN "vector"
    ELSE "other"

(* C24: each of the four entry points takes its scalar branch exactly when *)
(* the argument is 1-by-1 and, that failing, its vector branch exactly     *)
(* when the argument is a flat array of Dim entries; otherwise it goes on  *)
(* to the diagonal and full branches.                                      *)
C24_ClassifiedByShape ==
    \A rep \in CovLike : BuiltFrom(rep) => TakenClass(rep) = ShapeClass(GivenAs(rep))

(* The same over the arguments that are 1-by-1, flat with Dim entries or   *)
(* Dim-by-Dim.                                                             *)
C24_ClassifiedByShapeOfSquare ==
    \A rep \in CovLike :
        (BuiltFrom(rep) /\ GivenAs(rep).name \notin {"row", "long"})
            => TakenClass(rep) = ShapeClass(GivenAs(rep))

----------------------------------------------------------------------------
(* Properties of a failed assignment.                                      *)

FactorizationErrors ==
    {"ValueError:symmetric", "ValueError:psd", "LinAlgError", "NotImplementedError"}

(* An assignment to the property the Gaussian was built with raised in the *)
(* factorization of its value.                                             *)
FailedSet ==
    /\ g.exists /\ glast.op = "set" /\ g.exc \in FactorizationErrors
    /\ IsVal(g._mutable_vars) /\ glast.field = g._mutable_vars.v[2]

StoredFields == {"_cov", "_prec", "_sqrtcov", "_sqrtprec"}
DerivedFields == {"_logdet", "_rank"}
FieldOf(rep) ==
    IF rep = "cov" THEN "_cov" ELSE IF rep = "prec" THEN "_prec"
    ELSE IF rep = "sqrtcov" THEN "_sqrtcov" ELSE "_sqrtprec"

(* C27: an assignment to the designated property that fails in the         *)
(* factorization leaves the Gaussian as it was: the stored value of the    *)
(* property and prec, sqrtprec, logdet and rank are those from before the  *)
(* call.                                                                   *)
C27_FailedSetChangesNothing ==
    FailedSet => \A f \in StoredFields \cup DerivedFields : g[f] = glast.before[f]

(* What a failed assignment leaves: the new value in the field of the      *)
(* property, every other field as before.                                  *)
C27_FailedSetStoresValue ==
    FailedSet
        => /\ g[FieldOf(glast.field)] = glast.value
           /\ \A f \in (StoredFields \cup DerivedFields) \ {FieldOf(glast.field)} :
                 g[f] = glast.before[f]

----------------------------------------------------------------------------
(* Properties of the batch files across calls.                             *)

(* The samples of the files of the directory, in index order. *)
RECURSIVE FilesUpTo(_)
FilesUpTo(i) == IF i < 0 THEN <<>> ELSE FilesUpTo(i - 1) \o files[i]
FilesInOrder == FilesUpTo(MaxNs)

(* C28: no call of sample overwrites a batch file an earlier call wrote    *)
(* to the same path.                                                       *)
C28_NoBatchFileOverwritten ==
    [][\A i \in BatchIds : files[i] # <<>> => files'[i] = files[i]]_vars

(* C28, second part: after sample calls that wrote every point in full     *)
(* batches, the files read in index order are the history in memory.       *)
C28_FilesReproduceHistory ==
    (/\ Exists /\ Initialized(s) /\ IsVal(s._samples) /\ last.op = "sample" /\ s.exc = "none"
     /\ last.k > 0 /\ Len(FilesInOrder) = Len(s._samples.v))
        => FilesInOrder = s._samples.v

----------------------------------------------------------------------------
(* Properties of the regularized sampler's solver parameters.              *)

(* A target was assigned to a RegularizedLinearRTONew and is held. *)
TargetAssigned ==
    /\ Exists /\ s.kind = "RegularizedLinearRTONew"
    /\ last.op = "set_target" /\ IsVal(s._target) /\ s._target = last.target

(* C29: after a target assignment to a RegularizedLinearRTONew the         *)
(* proximal operator is that of the prior of the target held, and the      *)
(* automatic step size is that of the M installed for it.                  *)
C29_SolverFollowsTarget ==
    TargetAssigned
        => /\ s.proximal = Val([of |-> s._target.v])
           /\ IsVal(s.M) /\ s.M.v.of = s._target.v
           /\ s._stepsize = Val([automatic |-> s.M.v])

(* What the code has: no RegularizedLinearRTONew object ever holds a       *)
(* proximal operator or a step size, whatever target is assigned to it.    *)
C29_SolverNeverSet ==
    (Exists /\ s.kind = "RegularizedLinearRTONew")
        => s.proximal = MISSING /\ s._stepsize = MISSING /\ ~live

----------------------------------------------------------------------------
(* Properties of reset.                                                    *)

(* reset() was called on a sampler its constructor returned and that was   *)
(* initialized.                                                            *)
WasReset == Exists /\ live /\ last.op = "reset" /\ last.wasInit

(* C30: reset() returns without error and leaves the sampler as            *)
(* initialization does: the current point is the initial point, the        *)
(* history is empty and every state and history key is set.                *)
C30_ResetReinitializes ==
    WasReset
        => /\ s.exc = "none" /\ Initialized(s)
           /\ s.current_point = s.initial_point
           /\ s._samples = Val(<<>>)
           /\ \A k \in _STATE_KEYS(s) \cup _HISTORY_KEYS(s) : IsVal(s[k])

(* What reset() leaves: it raises ValueError, every state and history key  *)
(* is None and the sampler still counts as initialized.                    *)
C30_ResetRaises ==
    WasReset
        => /\ s.exc = "ValueError:already_initialized" /\ Initialized(s)
           /\ \A k \in _STATE_KEYS(s) \cup _HISTORY_KEYS(s) : s[k] = NONE

=============================================================================
